---- MODULE Spec2Model ----
(***************************************************************************)
(* A state-machine model of pylint's orchestration core: the message       *)
(* registry (MessageIdStore / MessageDefinitionStore), the per-file        *)
(* suppression state (_MessageStateHandler / FileState) and the tree       *)
(* walker (ASTWalker).                                                     *)
(*                                                                         *)
(* Python dicts are functions with an explicit DOMAIN, lists are           *)
(* sequences, exceptions are the strings naming their class, and the       *)
(* outcome of the last call is kept in the variable ret.                   *)
(***************************************************************************)
EXTENDS Integers, Sequences, FiniteSets, TLC

\* ------------------------------------------------------------------ bounds

\* The longest old_names list of a message definition.
MaxOldNames == 2

\* The most names the two resolution caches hold together.
MaxCached == 1

\* The most entries of a pragma table handed to the block propagation.
MaxPragmas == 2

\* The longest _by_id_managed_msgs list.
MaxManaged == 1

\* The most calls that set suppression state while one file is checked.
MaxCalls == 2

\* The most add_checker calls on one walker.
MaxCheckers == 2

\* The most callbacks that raise during one walk.
MaxFailures == 1

\* The most tokens of a file that are comments or code between them.
MaxTokens == 2

\* The most emission requests while one file is checked.
MaxEmissions == 1

\* The most LinterStats handed to one merge.
MaxStats == 3

\* The most files handed to one parallel run, and the most worker processes.
MaxFiles == 2
MaxJobs == 2

\* ------------------------------------------------------- generic helpers

\* d[k] = v of a Python dict.
Put(d, k, v) == [x \in (DOMAIN d) \cup {k} |-> IF x = k THEN v ELSE d[x]]

\* The empty dict.
EmptyDict == [x \in {} |-> TRUE]

\* dict.get(key, default)
Get(d, k, default) == IF k \in DOMAIN d THEN d[k] ELSE default

\* The elements of a list.
Range(s) == {s[i] : i \in 1..Len(s)}

\* A call that returned v / a call that raised exception class e.
Ok(v) == [kind |-> "ok", value |-> v]
Raise(e) == [kind |-> "raise", exc |-> e]

\* --------------------------------------------------------- message names

\* Current message ids and symbols that checkers register.
MsgIds == {"C0114", "C0115"}
Symbols == {"missing-module-docstring", "missing-class-docstring"}

\* Legacy (old msgid, old symbol) pairs found in old_names. The last pair's
\* legacy id is also a current id of the pool.
OldPairs ==
    << <<"C0111", "missing-docstring">>,
       <<"C0115", "old-class-docstring">> >>

OldIds == {OldPairs[i][1] : i \in 1..Len(OldPairs)}
OldSymbols == {OldPairs[i][2] : i \in 1..Len(OldPairs)}

\* Names the withdrawn / moved-to-extension lists know, and a name nobody knows.
DeletedNames == {"W1601"}
MovedNames == {"R0201"}
NeverKnown == "no-such-message"

\* Every name a caller may ask the registry about.
Names == MsgIds \cup Symbols \cup OldIds \cup OldSymbols
            \cup DeletedNames \cup MovedNames \cup {NeverKnown}

\* old_names lists: sub-lists of OldPairs, in the order of OldPairs.
OldNameLists ==
    {<<>>} \cup
    {s \in UNION {[1..n -> Range(OldPairs)] : n \in 1..MaxOldNames} :
        \A i, j \in 1..Len(s) :
            i < j => \E a, b \in 1..Len(OldPairs) :
                        a < b /\ OldPairs[a] = s[i] /\ OldPairs[b] = s[j]}

\* The MessageDefinition objects a checker may hand to register_message.
Definitions ==
    [msgid : MsgIds, symbol : Symbols, old_names : OldNameLists]

\* The exception classes an `except UnknownMessageError` clause catches.
UnknownMessageErrors ==
    {"UnknownMessageError", "DeletedMessageError", "MessageBecameExtensionError"}

is_deleted(name) == name \in DeletedNames
is_moved(name) == name \in MovedNames

\* ------------------------------------------------------------------ state

VARIABLES
    msgid_to_symbol,       \* MessageIdStore.__msgid_to_symbol
    symbol_to_msgid,       \* MessageIdStore.__symbol_to_msgid
    old_names,             \* MessageIdStore.__old_names, in insertion order:
                           \*   a list of <<new_msgid, list of (old id, old symbol)>>
    active_msgids,         \* MessageIdStore.__active_msgids (the cache)
    messages_definitions,  \* MessageDefinitionStore._messages_definitions
    msgs_by_category,      \* MessageDefinitionStore._msgs_by_category
    definitions_cache,     \* the lru_cache of get_message_definitions
    msgs_state,            \* _MessageStateHandler._msgs_state (package scope)
    module_msgs_state,     \* FileState._module_msgs_state: msgid -> line -> bool
    raw_module_msgs_state, \* FileState._raw_module_msgs_state
    by_id_managed_msgs,    \* the linter's _by_id_managed_msgs list
    calls,                 \* how many calls have changed the file's state so far
    visit_events,          \* ASTWalker.visit_events: name -> list of callbacks
    leave_events,          \* ASTWalker.leave_events
    exception_msg,         \* ASTWalker.exception_msg
    added,                 \* the checkers given to add_checker, in call order
    stack,                 \* the active calls of walk, innermost last:
                           \*   [node, pc, i]: the i-th callback or child is next
    log,                   \* the callbacks invoked by the walk: [node, cb, raised]
    added_messages,        \* the add_message requests of the walk: [msgid, line]
    walk_status,           \* of the walk: "idle", "walking", "returned", "raised"
    emitted,               \* the Messages the linter has produced: [msgid, line]
    by_msg,                \* linter.stats.by_msg
    suppression_mapping,   \* FileState._suppression_mapping
    ignored_msgs,          \* FileState._ignored_msgs
    applied,               \* the pragmas process_tokens has applied: [action, msgid, line]
    attempts,              \* the emission requests of checkers: [msgid, line]
    file_pc,               \* the check of the file: "start", "scanned", "done"
    all_stats,             \* the list of LinterStats collected for merge_stats
    futures,               \* check_parallel: one task per file, in the order of files
    consumed,              \* check_parallel: how many results the loop has taken
    linter_stats,          \* the parent linter's stats
    par_pc,                \* check_parallel: "idle", "running", "returned", "raised"
    workers,               \* the pool's worker processes: the linter each has loaded
    all_mapreduce_data,    \* check_parallel: checker id -> list of the workers' data
    reduced,               \* the calls of reduce_map_data: [checker, data]
    py_version,            \* MessageDefinitionStore.py_version
    ret                    \* the last call: [op, arg, out]

registry_vars ==
    <<msgid_to_symbol, symbol_to_msgid, old_names, active_msgids,
      messages_definitions, msgs_by_category, definitions_cache>>

state_vars ==
    <<msgs_state, module_msgs_state, raw_module_msgs_state, by_id_managed_msgs, calls>>

walk_vars ==
    <<visit_events, leave_events, exception_msg, added, stack, log, added_messages, walk_status>>

file_vars ==
    <<emitted, by_msg, suppression_mapping, ignored_msgs, applied, attempts, file_pc>>

\* The variables that the registry, the handler and the walker leave alone.
par_vars == <<futures, consumed, linter_stats, par_pc, workers, all_mapreduce_data, reduced>>

more_vars == <<file_vars, all_stats, par_vars, py_version>>

vars == <<registry_vars, state_vars, walk_vars, more_vars, ret>>

\* ------------------------------------------------------- MessageIdStore

\* add_msgid_and_symbol: the exception it raises, or "" when it stores the pair.
add_msgid_and_symbol_exc(m2s, s2m, msgid, symbol) ==
    IF symbol \in DOMAIN s2m THEN "InvalidMessageError"
    ELSE IF msgid \in DOMAIN m2s THEN "InvalidMessageError"
    ELSE ""

\* Index of new_msgid's entry in old_names, 0 when it has none.
OldNamesIndex(old, new_msgid) ==
    IF \E i \in 1..Len(old) : old[i][1] = new_msgid
    THEN CHOOSE i \in 1..Len(old) : old[i][1] = new_msgid
    ELSE 0

\* add_legacy_msgid_and_symbol on the pair st = [s2m, old].
add_legacy_msgid_and_symbol(st, msgid, symbol, new_msgid) ==
    LET s2m1 == IF symbol \notin DOMAIN st.s2m
                THEN Put(st.s2m, symbol, new_msgid) ELSE st.s2m
        i    == OldNamesIndex(st.old, new_msgid)
        old1 == IF i = 0
                THEN Append(st.old, <<new_msgid, << <<msgid, symbol>> >> >>)
                ELSE [st.old EXCEPT ![i] = <<new_msgid, Append(@[2], <<msgid, symbol>>)>>]
    IN [s2m |-> s2m1, old |-> old1]

\* The loop of register_message over message.old_names, from its k-th element.
RECURSIVE add_legacy_all(_, _, _, _)
add_legacy_all(st, olds, k, new_msgid) ==
    IF k > Len(olds) THEN st
    ELSE add_legacy_all(
            add_legacy_msgid_and_symbol(st, olds[k][1], olds[k][2], new_msgid),
            olds, k + 1, new_msgid)

\* ScanOldNames appending the old name it matched instead of the new msgid.
ScanOldNames_keeps_old(old, name) ==
    IF \E i \in 1..Len(old) : \E j \in 1..Len(old[i][2]) :
            name = old[i][2][j][1] \/ name = old[i][2][j][2]
    THEN <<name>> ELSE <<>>

\* The scan of __old_names in get_active_msgids: the first new msgid one of
\* whose old names is `name`, as a list of at most one element.
ScanOldNames(old, name) ==
    LET hits == {i \in 1..Len(old) :
                    \E j \in 1..Len(old[i][2]) :
                        name = old[i][2][j][1] \/ name = old[i][2][j][2]}
    IN IF hits = {} THEN <<>>
       ELSE << old[CHOOSE i \in hits : \A h \in hits : i <= h][1] >>

\* The lookup of get_active_msgids behind its cache.
LookupMsgids(m2s, s2m, old, name) ==
    IF name \in DOMAIN m2s THEN <<name>>
    ELSE IF name \in DOMAIN s2m THEN <<s2m[name]>>
    ELSE ScanOldNames(old, name)

\* get_active_msgids: [out |-> what the call does, cache |-> __active_msgids after it].
get_active_msgids(name) ==
    IF name \in DOMAIN active_msgids
    THEN [out |-> Ok(active_msgids[name]), cache |-> active_msgids]
    ELSE LET result == LookupMsgids(msgid_to_symbol, symbol_to_msgid, old_names, name)
         IN IF result = <<>>
            THEN [out |-> Raise(IF is_deleted(name) THEN "DeletedMessageError"
                                ELSE IF is_moved(name) THEN "MessageBecameExtensionError"
                                ELSE "UnknownMessageError"),
                  cache |-> active_msgids]
            ELSE [out |-> Ok(result), cache |-> Put(active_msgids, name, result)]

\* ------------------------------------------------ MessageDefinitionStore

\* The list comprehension of get_message_definitions.
DefinitionsOf(msgids) == [i \in 1..Len(msgids) |-> messages_definitions[msgids[i]]]

\* get_message_definitions: [out, cache (of get_active_msgids), lru (its own cache)].
get_message_definitions(name) ==
    IF name \in DOMAIN definitions_cache
    THEN [out |-> Ok(definitions_cache[name]), cache |-> active_msgids,
          lru |-> definitions_cache]
    ELSE LET r == get_active_msgids(name)
         IN IF r.out.kind = "raise"
            THEN IF r.out.exc \in UnknownMessageErrors
                 THEN [out |-> Ok(<<>>), cache |-> r.cache,
                       lru |-> Put(definitions_cache, name, <<>>)]
                 ELSE [out |-> r.out, cache |-> r.cache, lru |-> definitions_cache]
            ELSE IF \E i \in 1..Len(r.out.value) :
                        r.out.value[i] \notin DOMAIN messages_definitions
                 THEN [out |-> Raise("KeyError"), cache |-> r.cache,
                       lru |-> definitions_cache]
                 ELSE [out |-> Ok(DefinitionsOf(r.out.value)), cache |-> r.cache,
                       lru |-> Put(definitions_cache, name, DefinitionsOf(r.out.value))]

\* The first letter of a msgid: its category.
Category(msgid) == CHOOSE c \in {"C", "W", "E", "R", "I", "F"} :
    \/ c = "C" /\ msgid \in {"C0114", "C0115", "C0111"}
    \/ c = "W" /\ msgid \in {"W1601"}
    \/ c = "R" /\ msgid \in {"R0201"}
    \/ c = "E" /\ msgid \in {"E0013"}

\* ------------------------------------------------------ the checked file

\* The syntax tree of the file being checked, one node per number:
\*   1 Module      lines 1..5   children 2, 5
\*   2 FunctionDef lines 2..4   children 3
\*   3 If          lines 3..4   children 4
\*   4 Expr        line  4
\*   5 Expr        line  5
Nodes == 1..5
Root == 1
ClassName == <<"Module", "FunctionDef", "If", "Expr", "Expr">>
fromlineno == <<1, 2, 3, 4, 5>>
tolineno == <<5, 4, 4, 4, 5>>
get_children == << <<2, 5>>, <<3>>, <<4>>, <<>>, <<>> >>

\* FileState._effective_max_line_number: node.tolineno of the module.
\* node.lineno (0 for the module).
lineno == <<0, 2, 3, 4, 5>>

effective_max_line_number == tolineno[Root]
Lines == 1..effective_max_line_number

\* line=None of the handler's methods.
NoLine == 0

\* node.first_child(): the first of the node's children, 0 (None) without any.
first_child(node) == IF get_children[node] = <<>> THEN 0 ELSE get_children[node][1]

\* ------------------------------------------------------------- FileState

\* d[k][line] = v for every line of lines, d[k] being created when missing.
PutLines(d, k, lines, v) ==
    LET old == Get(d, k, EmptyDict)
    IN Put(d, k, [l \in (DOMAIN old) \cup lines |-> IF l \in lines THEN v ELSE old[l]])

\* FileState.set_msg_status(msg, line, status, scope) on _module_msgs_state;
\* the caller has checked line > 0.
set_msg_status(mod, msgid, line, status, scope) ==
    IF scope = "package"
    THEN PutLines(mod, msgid, line..effective_max_line_number, status)
    ELSE PutLines(mod, msgid, {line}, status)

\* FileState._set_message_state_on_line on st = [mod, raw].
set_message_state_on_line(st, msgid, line, state, original_lineno) ==
    [mod |-> PutLines(st.mod, msgid, {line}, state),
     raw |-> PutLines(st.raw, msgid, {original_lineno}, state)]

\* The first loop of _set_message_state_in_block, from line `line`.
RECURSIVE block_head(_, _, _, _, _, _)
block_head(st, msgid, lines, start, line, firstchildlineno) ==
    IF line >= firstchildlineno THEN st
    ELSE block_head(
            set_message_state_on_line(st, msgid, line, Get(lines, start, TRUE), start),
            msgid, lines, start, line + 1, firstchildlineno)

\* The second loop of _set_message_state_in_block, from line `line`.
RECURSIVE block_tail(_, _, _, _, _)
block_tail(st, msgid, lines, line, end) ==
    IF line > end THEN st
    ELSE block_tail(
            set_message_state_on_line(st, msgid, line, Get(lines, line, TRUE), line),
            msgid, lines, line + 1, end)

\* FileState._set_message_state_in_block(msg, lines, node, firstchildlineno)
set_message_state_in_block(st, msgid, lines, node, firstchildlineno) ==
    block_tail(
        block_head(st, msgid, lines, fromlineno[node], fromlineno[node], firstchildlineno),
        msgid, lines, firstchildlineno, tolineno[node])

\* FileState._set_state_on_block_lines(msgs_store, node, msg, msg_state);
\* walk_children is its loop over node.get_children() from the k-th child.
RECURSIVE set_state_on_block_lines(_, _, _, _), walk_block_children(_, _, _, _, _)
set_state_on_block_lines(st, node, msgid, msg_state) ==
    LET fc == first_child(node)
        st1 == set_message_state_in_block(st, msgid, msg_state, node,
                    IF fc # 0 THEN fromlineno[fc] ELSE fromlineno[node])
    IN walk_block_children(st1, node, 1, msgid, msg_state)
walk_block_children(st, node, k, msgid, msg_state) ==
    IF k > Len(get_children[node]) THEN st
    ELSE walk_block_children(
            set_state_on_block_lines(st, get_children[node][k], msgid, msg_state),
            node, k + 1, msgid, msg_state)

\* ------------------------------------------------- _MessageStateHandler

\* The message categories, MSG_TYPES.
MSG_TYPES == {"I", "C", "R", "W", "E", "F"}

\* str.upper() of the names the handler is given.
Upper(name) ==
    CASE name = "c" -> "C"
      [] name = "all" -> "ALL"
      [] name = "missing-module-docstring" -> "MISSING-MODULE-DOCSTRING"
      [] name = "missing-docstring" -> "MISSING-DOCSTRING"
      [] name = "no-such-message" -> "NO-SUCH-MESSAGE"
      [] OTHER -> name

\* The confidences a caller passes; "None" is confidence=None.
Confidences == {"None", "HIGH"}

\* msgs_store.get_message_definition(name): the definition `name` resolves to,
\* UnknownMessageError when the registry does not know the name.
get_message_definition(name) ==
    LET ids == LookupMsgids(msgid_to_symbol, symbol_to_msgid, old_names, name)
    IN IF ids = <<>> \/ ids[1] \notin DOMAIN messages_definitions
       THEN Raise("UnknownMessageError")
       ELSE Ok(messages_definitions[ids[1]])

\* _MessageStateHandler._get_messages_to_set(msgid, enable, ignore_unknown):
\* the list of definitions, or the exception. msgs_store.messages is a
\* property that returns dict.values(), so messages.values() raises.
get_messages_to_set(msgid, ignore_unknown) ==
    IF msgid = "all" THEN Raise("AttributeError")
    ELSE IF Upper(msgid) \in MSG_TYPES THEN Raise("AttributeError")
    ELSE LET r == get_message_definition(msgid)
         IN IF r.kind = "ok" THEN Ok(<<r.value>>)
            ELSE IF r.exc \in UnknownMessageErrors /\ ignore_unknown THEN Ok(<<>>)
            ELSE r

\* _MessageStateHandler._set_one_msg_status(scope, msg, line, enable) on
\* st = [pkg, mod]: the state after it, with exc set when it raises.
\* file_state.set_msg_status is called without a scope, so with scope='package'.
set_one_msg_status(st, scope, msgid, line, enable) ==
    IF scope = "module"
    THEN IF line = NoLine
         THEN [st EXCEPT !.exc = "TypeError"]
         ELSE [st EXCEPT !.mod = set_msg_status(st.mod, msgid, line, enable, "package")]
    ELSE IF scope = "package"
    THEN [st EXCEPT !.pkg = Put(st.pkg, msgid, enable)]
    ELSE [st EXCEPT !.exc = "ValueError"]

\* _MessageStateHandler._set_msg_status(msgid, enable, scope, line, ignore_unknown)
\* on st0 = [pkg, mod, exc]: the state after it, exc = "" when it returns.
set_msg_status_from(st0, msgid, enable, scope, line, ignore_unknown) ==
    LET msgs == IF msgid = "all"
                THEN get_messages_to_set(CHOOSE c \in MSG_TYPES : TRUE, ignore_unknown)
                ELSE get_messages_to_set(msgid, ignore_unknown)
    IN IF msgs.kind = "raise" THEN [st0 EXCEPT !.exc = msgs.exc]
       ELSE IF msgs.value = <<>> THEN st0
       ELSE set_one_msg_status(st0, scope, msgs.value[1].msgid, line, enable)

\* The same from the current state.
set_msg_status_of(msgid, enable, scope, line, ignore_unknown) ==
    set_msg_status_from([pkg |-> msgs_state, mod |-> module_msgs_state, exc |-> ""],
                        msgid, enable, scope, line, ignore_unknown)

\* _MessageStateHandler._register_by_id_managed_msg(msgid_or_symbol, line, is_disabled)
register_by_id_managed_msg(managed, msgid_or_symbol, line, is_disabled) ==
    LET r == get_message_definition(msgid_or_symbol)
    IN IF r.kind = "raise" THEN managed
       ELSE IF r.value.msgid # msgid_or_symbol
       THEN Append(managed, [msgid |-> r.value.msgid, symbol |-> r.value.symbol,
                             line |-> line, is_disabled |-> is_disabled])
       ELSE managed

\* _MessageStateHandler._get_message_state_scope(msgid, line, confidence):
\* the scope ("None" for None), or the exception of `name in False`.
get_message_state_scope(msgid, line, confidence) ==
    IF Get(msgs_state, msgid, FALSE) THEN Ok("MSG_STATE_SCOPE_CONFIG")
    ELSE IF line \in DOMAIN Get(module_msgs_state, msgid, EmptyDict)
    THEN Ok("MSG_STATE_SCOPE_MODULE")
    ELSE IF confidence # "None" /\ msgid \in DOMAIN msgs_state THEN Raise("TypeError")
    ELSE Ok("None")

\* _MessageStateHandler._is_one_message_enabled(msgid, line)
is_one_message_enabled(msgid, line) ==
    IF line = NoLine THEN Get(msgs_state, msgid, TRUE)
    ELSE IF msgid \in DOMAIN module_msgs_state /\ line \in DOMAIN module_msgs_state[msgid]
    THEN module_msgs_state[msgid][line]
    ELSE Get(msgs_state, msgid, TRUE)

\* _MessageStateHandler.is_message_enabled(msg_descr, line, confidence)
is_message_enabled_checks_tables(msg_descr, line, confidence) ==
    LET r == get_message_definition(msg_descr)
        msgid == IF r.kind = "ok" THEN r.value.msgid ELSE msg_descr
    IN IF r.kind = "raise" /\ r.exc \notin UnknownMessageErrors THEN r
       ELSE IF msgid \notin DOMAIN messages_definitions
       THEN Ok(Get(msgs_state, msgid, FALSE))
       ELSE LET scope == get_message_state_scope(msgid, line, confidence)
            IN IF scope.kind = "raise" THEN scope
               ELSE IF scope.value = "None" THEN Ok(TRUE)
               ELSE Ok(is_one_message_enabled(msgid, line))

is_message_enabled(msg_descr, line, confidence) ==
    LET r == get_message_definition(msg_descr)
        msgid == IF r.kind = "ok" THEN r.value.msgid ELSE msg_descr
    IN IF r.kind = "raise" /\ r.exc \notin UnknownMessageErrors THEN r
       ELSE IF msgid \notin DOMAIN messages_definitions THEN Ok(TRUE)
       ELSE LET scope == get_message_state_scope(msgid, line, confidence)
            IN IF scope.kind = "raise" THEN scope
               ELSE IF scope.value = "None" THEN Ok(TRUE)
               ELSE Ok(is_one_message_enabled(msgid, line))

\* --------------------------------------------------------------- versions

\* A version is a tuple of integers; the empty tuple stands for None (no
\* bound). sys.version_info is the default py_version of a store.
NoVersion == <<>>
DefaultVersion == <<3, 8, 1>>

\* The versions a store is built for and the bounds a definition carries.
PyVersions == {<<3, 7>>, <<3, 8>>, <<3, 8, 1>>, <<3, 9>>, <<3, 10>>}
VersionBounds == {NoVersion, <<3, 8>>, <<3, 9>>}

\* a < b on tuples of integers: the first difference decides, and a proper
\* prefix is lower.
RECURSIVE TupleLess(_, _)
TupleLess(a, b) ==
    IF b = <<>> THEN FALSE
    ELSE IF a = <<>> THEN TRUE
    ELSE IF a[1] # b[1] THEN a[1] < b[1]
    ELSE TupleLess(Tail(a), Tail(b))

\* The minversion and maxversion of a definition (None when not given).
MinVersion(message) ==
    IF "minversion" \in DOMAIN message THEN message.minversion ELSE NoVersion
MaxVersion(message) ==
    IF "maxversion" \in DOMAIN message THEN message.maxversion ELSE NoVersion

\* MessageDefinition.may_be_emitted(py_version)
may_be_emitted_ignores_maxversion(message, version) ==
    IF MinVersion(message) # NoVersion /\ TupleLess(version, MinVersion(message))
    THEN FALSE
    ELSE TRUE

may_be_emitted(message, version) ==
    IF MinVersion(message) # NoVersion /\ TupleLess(version, MinVersion(message))
    THEN FALSE
    ELSE IF MaxVersion(message) # NoVersion /\ TupleLess(MaxVersion(message), version)
    THEN FALSE
    ELSE TRUE

\* ----------------------------------------------------------- LinterStats

\* A float that is a quotient of integers, in lowest terms.
RECURSIVE GCD(_, _)
GCD(a, b) == IF b = 0 THEN a ELSE GCD(b, a % b)

Rat(num, den) ==
    IF num = 0 THEN [num |-> 0, den |-> 1]
    ELSE [num |-> num \div GCD(num, den), den |-> den \div GCD(num, den)]

RatAdd(x, y) == Rat(x.num * y.den + y.num * x.den, x.den * y.den)

RatDiv(x, n) == Rat(x.num, x.den * n)

\* The keys of the TypedDicts of linterstats.py.
BadNamesKeys ==
    {"argument", "attr", "klass", "class_attribute", "class_const", "const",
     "inlinevar", "function", "method", "module", "variable", "typevar", "typealias"}
CodeTypeCountKeys == {"code", "comment", "docstring", "empty", "total"}
NodeCountKeys == {"function", "klass", "method", "module"}
ModuleStatsKeys ==
    {"convention", "error", "fatal", "info", "refactor", "statement", "warning"}

\* ModuleStats(convention=0, ..., warning=0)
ZeroModuleStats == [k \in ModuleStatsKeys |-> 0]

\* LinterStats(): every counter 0, every dict empty.
NewLinterStats ==
    [bad_names |-> [k \in BadNamesKeys |-> 0],
     by_module |-> EmptyDict,
     by_msg |-> EmptyDict,
     code_type_count |-> [k \in CodeTypeCountKeys |-> 0],
     dependencies |-> EmptyDict,
     duplicated_lines |-> [nb_duplicated_lines |-> 0,
                           percent_duplicated_lines |-> Rat(0, 1)],
     node_count |-> [k \in NodeCountKeys |-> 0],
     undocumented |-> [k \in NodeCountKeys |-> 0],
     convention |-> 0, error |-> 0, fatal |-> 0, info |-> 0, refactor |-> 0,
     statement |-> 0, warning |-> 0, global_note |-> 0,
     nb_duplicated_lines |-> 0,
     percent_duplicated_lines |-> Rat(0, 1)]


\* ---------------------------------------------------------------- actions


Init ==
    /\ msgid_to_symbol = EmptyDict
    /\ symbol_to_msgid = EmptyDict
    /\ old_names = <<>>
    /\ active_msgids = EmptyDict
    /\ messages_definitions = EmptyDict
    /\ msgs_by_category = EmptyDict
    /\ definitions_cache = EmptyDict
    /\ msgs_state = EmptyDict
    /\ module_msgs_state = EmptyDict
    /\ raw_module_msgs_state = EmptyDict
    /\ by_id_managed_msgs = <<>>
    /\ calls = 0
    /\ visit_events = EmptyDict
    /\ leave_events = EmptyDict
    /\ exception_msg = FALSE
    /\ added = <<>>
    /\ stack = <<>>
    /\ log = <<>>
    /\ added_messages = <<>>
    /\ walk_status = "idle"
    /\ emitted = <<>>
    /\ by_msg = EmptyDict
    /\ suppression_mapping = EmptyDict
    /\ ignored_msgs = EmptyDict
    /\ applied = <<>>
    /\ attempts = <<>>
    /\ file_pc = "start"
    /\ all_stats = <<>>
    /\ futures = <<>>
    /\ consumed = 0
    /\ linter_stats = NewLinterStats
    /\ par_pc = "idle"
    /\ workers = <<>>
    /\ all_mapreduce_data = EmptyDict
    /\ reduced = <<>>
    /\ py_version = DefaultVersion
    /\ ret = [op |-> "__init__", arg |-> "", out |-> Ok("None")]

\* The registry's maps as one value, exc = "" while no call has raised.
Registry ==
    [m2s |-> msgid_to_symbol, s2m |-> symbol_to_msgid, old |-> old_names,
     defs |-> messages_definitions, cats |-> msgs_by_category, exc |-> ""]

\* MessageDefinitionStore.register_message(message) on the registry reg.
register_message_on(reg, message) ==
    LET exc == add_msgid_and_symbol_exc(reg.m2s, reg.s2m, message.msgid, message.symbol)
    IN IF exc # "" THEN [reg EXCEPT !.exc = exc]
       ELSE LET st == add_legacy_all(
                        [s2m |-> Put(reg.s2m, message.symbol, message.msgid),
                         old |-> reg.old],
                        message.old_names, 1, message.msgid)
                cat == Category(message.msgid)
            IN [m2s |-> Put(reg.m2s, message.msgid, message.symbol),
                s2m |-> st.s2m,
                old |-> st.old,
                defs |-> Put(reg.defs, message.msgid, message),
                cats |-> Put(reg.cats, cat, Append(Get(reg.cats, cat, <<>>), message.msgid)),
                exc |-> ""]

\* The loop of register_messages_from_checker, from the k-th message: it stops
\* at the first register_message that raises.
RECURSIVE register_all(_, _, _)
register_all(reg, messages, k) ==
    IF k > Len(messages) \/ reg.exc # "" THEN reg
    ELSE register_all(register_message_on(reg, messages[k]), messages, k + 1)

\* The registry's variables become reg.
SetRegistry(reg) ==
    /\ msgid_to_symbol' = reg.m2s
    /\ symbol_to_msgid' = reg.s2m
    /\ old_names' = reg.old
    /\ messages_definitions' = reg.defs
    /\ msgs_by_category' = reg.cats
    /\ UNCHANGED <<active_msgids, definitions_cache>>

\* What a call that ended with exception class exc ("" for none) gives its caller.
Outcome(exc) == IF exc = "" THEN Ok("None") ELSE Raise(exc)

\* MessageDefinitionStore.register_message(message)
register_message(message) ==
    LET reg == register_message_on(Registry, message)
    IN /\ SetRegistry(reg)
       /\ ret' = [op |-> "register_message", arg |-> message, out |-> Outcome(reg.exc)]

\* The caches have room for one more name.
CacheRoom ==
    Cardinality(DOMAIN active_msgids) + Cardinality(DOMAIN definitions_cache) < MaxCached

\* MessageIdStore.get_active_msgids(msgid_or_symbol)
call_get_active_msgids(name) ==
    LET r == get_active_msgids(name)
    IN /\ name \in DOMAIN active_msgids \/ CacheRoom
       /\ active_msgids' = r.cache
       /\ ret' = [op |-> "get_active_msgids", arg |-> name, out |-> r.out]
       /\ UNCHANGED <<msgid_to_symbol, symbol_to_msgid, old_names,
                      messages_definitions, msgs_by_category, definitions_cache>>

\* MessageDefinitionStore.get_message_definitions(msgid_or_symbol)
call_get_message_definitions(name) ==
    LET r == get_message_definitions(name)
    IN /\ name \in DOMAIN definitions_cache \/ CacheRoom
       /\ active_msgids' = r.cache
       /\ definitions_cache' = r.lru
       /\ ret' = [op |-> "get_message_definitions", arg |-> name, out |-> r.out]
       /\ UNCHANGED <<msgid_to_symbol, symbol_to_msgid, old_names,
                      messages_definitions, msgs_by_category>>

NextRegistry ==
    \/ \E message \in Definitions :
          register_message(message) /\ UNCHANGED <<state_vars, walk_vars, more_vars>>
    \/ \E name \in Names :
          call_get_active_msgids(name) /\ UNCHANGED <<state_vars, walk_vars, more_vars>>
    \/ \E name \in Names :
          call_get_message_definitions(name) /\ UNCHANGED <<state_vars, walk_vars, more_vars>>

SpecRegistry == Init /\ [][NextRegistry]_vars

\* The definitions with version bounds that a checker may register.
VersionedDefinitions ==
    { [msgid |-> "C0114", symbol |-> "missing-module-docstring", old_names |-> <<>>,
       minversion |-> lo, maxversion |-> hi] : lo, hi \in VersionBounds }
    \cup
    { [msgid |-> "C0115", symbol |-> "missing-class-docstring", old_names |-> <<>>,
       minversion |-> lo, maxversion |-> hi] : lo, hi \in VersionBounds }

\* self.messages, the values of _messages_definitions, as a list; the list
\* is in the order of the ids, not in the order of registration.
MessageIdOrder == <<"C0114", "C0115">>

store_messages ==
    LET ids == SelectSeq(MessageIdOrder, LAMBDA id : id \in DOMAIN messages_definitions)
    IN [i \in 1..Len(ids) |-> messages_definitions[ids[i]]]

\* The loop of find_emittable_messages, from the k-th message, on
\* lists = <<emittable, non_emittable>>.
RECURSIVE find_emittable_from(_, _, _, _)
find_emittable_from(lists, msgs, k, version) ==
    IF k > Len(msgs) THEN lists
    ELSE find_emittable_from(
            IF may_be_emitted(msgs[k], version)
            THEN <<Append(lists[1], msgs[k]), lists[2]>>
            ELSE <<lists[1], Append(lists[2], msgs[k])>>,
            msgs, k + 1, version)

\* MessageDefinitionStore.find_emittable_messages()
find_emittable_messages == find_emittable_from(<<<<>>, <<>>>>, store_messages, 1, py_version)

\* MessageDefinitionStore(py_version): the store is built for a version,
\* before anything is registered.
new_store(version) ==
    /\ DOMAIN messages_definitions = {}
    /\ py_version' = version
    /\ ret' = [op |-> "__init__", arg |-> version, out |-> Ok("None")]
    /\ UNCHANGED registry_vars

\* message.may_be_emitted(version) for a registered message.
call_may_be_emitted(msgid, version) ==
    /\ msgid \in DOMAIN messages_definitions
    /\ ret' = [op |-> "may_be_emitted",
               arg |-> [message |-> messages_definitions[msgid], version |-> version],
               out |-> Ok(may_be_emitted(messages_definitions[msgid], version))]
    /\ UNCHANGED <<registry_vars, py_version>>

call_find_emittable_messages ==
    /\ ret' = [op |-> "find_emittable_messages", arg |-> py_version,
               out |-> Ok(find_emittable_messages)]
    /\ UNCHANGED <<registry_vars, py_version>>

NextVersion ==
    \/ \E version \in PyVersions :
          new_store(version)
              /\ UNCHANGED <<state_vars, walk_vars, file_vars, all_stats, par_vars>>
    \/ \E message \in VersionedDefinitions :
          register_message(message) /\ UNCHANGED <<state_vars, walk_vars, more_vars>>
    \/ \E msgid \in MsgIds, version \in PyVersions :
          call_may_be_emitted(msgid, version)
              /\ UNCHANGED <<state_vars, walk_vars, file_vars, all_stats, par_vars>>
    \/ call_find_emittable_messages
          /\ UNCHANGED <<state_vars, walk_vars, file_vars, all_stats, par_vars>>

SpecVersion == Init /\ [][NextVersion]_vars

\* ------------------------------------------- actions on the file's state

\* The messages of the checker whose messages the file is checked for.
CheckerMessages ==
    << [msgid |-> "C0114", symbol |-> "missing-module-docstring",
        old_names |-> << <<"C0111", "missing-docstring">> >>] >>

\* The names a pragma, an option or a checker gives the handler.
HandlerNames ==
    {"C0114", "missing-module-docstring", "no-such-message", "all"}

Scopes == {"package", "module"}

\* The per-line pragma tables handed to the block propagation.
PragmaTables ==
    {EmptyDict} \cup
    UNION {[ls -> BOOLEAN] : ls \in {x \in SUBSET Lines :
                                        Cardinality(x) \in 1..MaxPragmas}}

\* MessageDefinitionStore.register_messages_from_checker(checker)
register_messages_from_checker ==
    LET reg == register_all(Registry, CheckerMessages, 1)
    IN /\ SetRegistry(reg)
       /\ ret' = [op |-> "register_messages_from_checker", arg |-> "",
                  out |-> Outcome(reg.exc)]

\* The handler's state becomes st = [pkg, mod, exc], its managed list `managed`.
SetHandler(op, msgid, scope, line, st, managed) ==
    /\ calls < MaxCalls
    /\ calls' = calls + 1
    /\ msgs_state' = st.pkg
    /\ module_msgs_state' = st.mod
    /\ by_id_managed_msgs' = IF st.exc = "" THEN managed ELSE by_id_managed_msgs
    /\ ret' = [op |-> op, arg |-> [msgid |-> msgid, scope |-> scope, line |-> line],
               out |-> Outcome(st.exc)]
    /\ UNCHANGED <<registry_vars, raw_module_msgs_state>>

\* _MessageStateHandler.disable(msgid, scope, line, ignore_unknown)
disable(msgid, scope, line, ignore_unknown) ==
    LET managed == IF line = NoLine
                   THEN register_by_id_managed_msg(by_id_managed_msgs, msgid, line, TRUE)
                   ELSE by_id_managed_msgs
    IN /\ Len(managed) <= MaxManaged
       /\ SetHandler("disable", msgid, scope, line,
                     set_msg_status_of(msgid, FALSE, scope, line, ignore_unknown), managed)

\* _MessageStateHandler.enable(msgid, scope, line, ignore_unknown)
enable(msgid, scope, line, ignore_unknown) ==
    LET managed == IF line = NoLine
                   THEN register_by_id_managed_msg(by_id_managed_msgs, msgid, line, FALSE)
                   ELSE by_id_managed_msgs
    IN /\ Len(managed) <= MaxManaged
       /\ SetHandler("enable", msgid, scope, line,
                     set_msg_status_of(msgid, TRUE, scope, line, ignore_unknown), managed)

\* _MessageStateHandler.disable_next(msgid, _, line, ignore_unknown); the scope
\* argument `_` is not read.
disable_next(msgid, line, ignore_unknown) ==
    LET st == IF line = NoLine
              THEN [pkg |-> msgs_state, mod |-> module_msgs_state, exc |-> "ValueError"]
              ELSE set_msg_status_of(msgid, FALSE, "module", line + 1, ignore_unknown)
    IN /\ line \in {NoLine} \cup Lines
       /\ SetHandler("disable_next", msgid, "package", line, st, by_id_managed_msgs)

\* _MessageStateHandler.is_message_enabled(msg_descr, line, confidence)
call_is_message_enabled(msg_descr, line, confidence) ==
    /\ ret' = [op |-> "is_message_enabled",
               arg |-> [msgid |-> msg_descr, line |-> line, confidence |-> confidence],
               out |-> is_message_enabled(msg_descr, line, confidence)]
    /\ UNCHANGED <<registry_vars, state_vars>>

\* FileState._set_state_on_block_lines(msgs_store, node, msg, msg_state) for a
\* registered message definition msg.
call_set_state_on_block_lines(node, msgid, msg_state) ==
    LET st == set_state_on_block_lines(
                [mod |-> module_msgs_state, raw |-> raw_module_msgs_state],
                node, msgid, msg_state)
    IN /\ msgid \in DOMAIN messages_definitions
       /\ calls < MaxCalls
       /\ calls' = calls + 1
       /\ module_msgs_state' = st.mod
       /\ raw_module_msgs_state' = st.raw
       /\ ret' = [op |-> "_set_state_on_block_lines",
                  arg |-> [node |-> node, msgid |-> msgid, msg_state |-> msg_state],
                  out |-> Ok("None")]
       /\ UNCHANGED <<registry_vars, msgs_state, by_id_managed_msgs>>

NextState ==
    \/ register_messages_from_checker /\ UNCHANGED <<state_vars, walk_vars, more_vars>>
    \/ \E msgid \in HandlerNames, scope \in Scopes, line \in {NoLine} \cup Lines,
          ignore_unknown \in BOOLEAN :
          disable(msgid, scope, line, ignore_unknown) /\ UNCHANGED <<walk_vars, more_vars>>
    \/ \E msgid \in HandlerNames, scope \in Scopes, line \in {NoLine} \cup Lines,
          ignore_unknown \in BOOLEAN :
          enable(msgid, scope, line, ignore_unknown) /\ UNCHANGED <<walk_vars, more_vars>>
    \/ \E msgid \in HandlerNames, line \in {NoLine} \cup Lines,
          ignore_unknown \in BOOLEAN :
          disable_next(msgid, line, ignore_unknown) /\ UNCHANGED <<walk_vars, more_vars>>
    \/ \E msg_descr \in HandlerNames, line \in {NoLine} \cup Lines,
          confidence \in Confidences :
          call_is_message_enabled(msg_descr, line, confidence) /\ UNCHANGED <<walk_vars, more_vars>>
    \/ \E msgid \in MsgIds, msg_state \in PragmaTables :
          call_set_state_on_block_lines(Root, msgid, msg_state) /\ UNCHANGED <<walk_vars, more_vars>>

SpecState == Init /\ [][NextState]_vars

\* The handler between two files: options disable and enable messages, and
\* callers ask whether a message is enabled.
NextLookup ==
    \/ register_messages_from_checker /\ UNCHANGED <<state_vars, walk_vars, more_vars>>
    \/ \E msgid \in HandlerNames, scope \in Scopes, line \in {NoLine} \cup Lines,
          ignore_unknown \in BOOLEAN :
          disable(msgid, scope, line, ignore_unknown) /\ UNCHANGED <<walk_vars, more_vars>>
    \/ \E msgid \in HandlerNames, scope \in Scopes, line \in {NoLine} \cup Lines,
          ignore_unknown \in BOOLEAN :
          enable(msgid, scope, line, ignore_unknown) /\ UNCHANGED <<walk_vars, more_vars>>
    \/ \E msg_descr \in HandlerNames, line \in {NoLine} \cup Lines,
          confidence \in Confidences :
          call_is_message_enabled(msg_descr, line, confidence) /\ UNCHANGED <<walk_vars, more_vars>>

SpecLookup == Init /\ [][NextLookup]_vars

\* ------------------------------------------------------------- ASTWalker

\* The checkers given to the walker and, for each, the members dir(checker)
\* lists, in dir()'s sorted order, as (prefix, rest of the name). Checkers name
\* a callback visit_<kind> with the node class in lower case (visit_functiondef
\* takes a nodes.FunctionDef); "first" and "second" also have callbacks named
\* after the class itself.
Checkers == {"first", "second"}

Member(prefix, suffix) == [prefix |-> prefix, suffix |-> suffix]

dir(checker) ==
    IF checker = "first"
    THEN << Member("leave_", "FunctionDef"), Member("leave_", "functiondef"),
            Member("", "open"),
            Member("visit_", "Expr"), Member("visit_", "FunctionDef"),
            Member("visit_", "functiondef") >>
    ELSE << Member("leave_", "Expr"), Member("visit_", "Expr"),
            Member("visit_", "If"), Member("visit_", "expr") >>

\* str.lower() of a node class name.
Lower(name) ==
    CASE name = "Module" -> "module"
      [] name = "FunctionDef" -> "functiondef"
      [] name = "If" -> "if"
      [] name = "Expr" -> "expr"
      [] OTHER -> name

\* The bound method getattr(checker, member).
Callback(checker, member) == [checker |-> checker, member |-> member]

\* The loop of add_checker over dir(checker), from its k-th member, on
\* ev = [visit, leave].
RECURSIVE collect_members(_, _, _)
collect_members(ev, checker, k) ==
    IF k > Len(dir(checker)) THEN ev
    ELSE LET m == dir(checker)[k]
             cb == Callback(checker, m)
         IN collect_members(
                IF m.prefix = "visit_"
                THEN [ev EXCEPT !.visit =
                        Put(@, m.suffix, Append(Get(@, m.suffix, <<>>), cb))]
                ELSE IF m.prefix = "leave_"
                THEN [ev EXCEPT !.leave =
                        Put(@, m.suffix, Append(Get(@, m.suffix, <<>>), cb))]
                ELSE ev,
                checker, k + 1)

\* ASTWalker.add_checker(checker)
add_checker(checker) ==
    LET ev == collect_members([visit |-> visit_events, leave |-> leave_events],
                              checker, 1)
    IN /\ walk_status = "idle"
       /\ Len(added) < MaxCheckers
       /\ visit_events' = ev.visit
       /\ leave_events' = ev.leave
       /\ added' = Append(added, checker)
       /\ UNCHANGED <<exception_msg, stack, log, added_messages, walk_status>>

\* The linter sets walker.exception_msg (batch mode: true).
set_exception_msg(b) ==
    /\ walk_status = "idle"
    /\ exception_msg # b
    /\ exception_msg' = b
    /\ UNCHANGED <<visit_events, leave_events, added, stack, log, added_messages, walk_status>>

\* The callbacks walk looks up for a node: events[astroid.__class__.__name__]
\* (the tables are defaultdicts: a name without callbacks gives the empty list).
callbacks_of(events, node) == Get(events, ClassName[node], <<>>)

\* The callbacks that have raised in this walk.
Failures == {i \in 1..Len(log) : log[i].raised}

\* A frame of walk at its first statement.
Frame(node) == [node |-> node, pc |-> "visit", i |-> 1]

\* What the except clause of walk does with the exception of a callback at
\* `node`: "message" (add_message E0013, batch mode) or "print" (print the
\* traceback); in both cases walk then returns normally.
except_clause == IF exception_msg THEN "message" ELSE "print"

\* The stack after the innermost walk has returned to its caller.
Return(stk) == SubSeq(stk, 1, Len(stk) - 1)

\* The walk's status once the stack is stk.
StatusOf(stk) == IF stk = <<>> THEN "returned" ELSE "walking"

\* walk(astroid) is called on the module.
walk_call ==
    /\ walk_status = "idle"
    /\ stack' = <<Frame(Root)>>
    /\ walk_status' = "walking"
    /\ UNCHANGED <<visit_events, leave_events, exception_msg, added, log, added_messages>>

\* One callback of the innermost walk is invoked, cb(astroid): it returns, or
\* it raises and the except clause of that same walk handles the exception.
invoke(events, pc, raises) ==
    LET top == stack[Len(stack)]
        cbs == callbacks_of(events, top.node)
    IN /\ walk_status = "walking"
       /\ top.pc = pc
       /\ top.i <= Len(cbs)
       /\ raises => Cardinality(Failures) < MaxFailures
       /\ log' = Append(log, [node |-> top.node, cb |-> cbs[top.i], raised |-> raises])
       /\ IF raises
          THEN /\ stack' = Return(stack)
               /\ walk_status' = StatusOf(Return(stack))
               /\ added_messages' = IF except_clause = "message"
                              THEN Append(added_messages, [msgid |-> "E0013",
                                                     line |-> lineno[top.node]])
                              ELSE added_messages
          ELSE /\ stack' = [stack EXCEPT ![Len(stack)].i = top.i + 1]
               /\ UNCHANGED <<walk_status, added_messages>>
       /\ UNCHANGED <<visit_events, leave_events, exception_msg, added>>

\* for cb in self.visit_events[...]: cb(astroid)
walk_visit(raises) == invoke(visit_events, "visit", raises)

\* for cb in self.leave_events[...]: cb(astroid)
walk_leave(raises) == invoke(leave_events, "leave", raises)

\* The visit callbacks are done: on to the children.
walk_visited ==
    LET top == stack[Len(stack)]
    IN /\ walk_status = "walking"
       /\ top.pc = "visit"
       /\ top.i > Len(callbacks_of(visit_events, top.node))
       /\ stack' = [stack EXCEPT ![Len(stack)] = [top EXCEPT !.pc = "children", !.i = 1]]
       /\ UNCHANGED <<visit_events, leave_events, exception_msg, added, log,
                      added_messages, walk_status>>

\* The child walk expects next: the i-th of get_children(), in source order.
next_child(node, i) == get_children[node][i]

\* for child in astroid.get_children(): self.walk(child)
walk_child ==
    LET top == stack[Len(stack)]
    IN /\ walk_status = "walking"
       /\ top.pc = "children"
       /\ IF top.i <= Len(get_children[top.node])
          THEN stack' = Append([stack EXCEPT ![Len(stack)].i = top.i + 1],
                               Frame(next_child(top.node, top.i)))
          ELSE stack' = [stack EXCEPT ![Len(stack)] = [top EXCEPT !.pc = "leave", !.i = 1]]
       /\ UNCHANGED <<visit_events, leave_events, exception_msg, added, log,
                      added_messages, walk_status>>

\* The leave callbacks are done: walk returns.
walk_return ==
    LET top == stack[Len(stack)]
    IN /\ walk_status = "walking"
       /\ top.pc = "leave"
       /\ top.i > Len(callbacks_of(leave_events, top.node))
       /\ stack' = Return(stack)
       /\ walk_status' = StatusOf(Return(stack))
       /\ UNCHANGED <<visit_events, leave_events, exception_msg, added, log, added_messages>>

NextWalk ==
    \/ \E checker \in Checkers :
          add_checker(checker) /\ UNCHANGED <<registry_vars, state_vars, more_vars, ret>>
    \/ \E b \in BOOLEAN :
          set_exception_msg(b) /\ UNCHANGED <<registry_vars, state_vars, more_vars, ret>>
    \/ walk_call /\ UNCHANGED <<registry_vars, state_vars, more_vars, ret>>
    \/ \E raises \in BOOLEAN :
          walk_visit(raises) /\ UNCHANGED <<registry_vars, state_vars, more_vars, ret>>
    \/ walk_visited /\ UNCHANGED <<registry_vars, state_vars, more_vars, ret>>
    \/ walk_child /\ UNCHANGED <<registry_vars, state_vars, more_vars, ret>>
    \/ \E raises \in BOOLEAN :
          walk_leave(raises) /\ UNCHANGED <<registry_vars, state_vars, more_vars, ret>>
    \/ walk_return /\ UNCHANGED <<registry_vars, state_vars, more_vars, ret>>

SpecWalk == Init /\ [][NextWalk]_vars


\* ------------------------------------------------- the check of one file

\* A Message the linter has produced.
Message(msgid, line) == [msgid |-> msgid, line |-> line]

\* The linter's own messages: they are registered by the linter itself and
\* are never disabled here.
LinterMessages == {"bad-inline-option", "useless-suppression"}

\* One pragma of a comment, as parse_pragma yields it.
Pragma(action, messages) == [action |-> action, messages |-> messages]

\* A token of the file: its type, its line (start[0]), whether OPTION_PO
\* matches its content, the pragmas parse_pragma yields for the match and the
\* exception parse_pragma raises after them ("" for none).
Token(type, line, matched, clauses, error) ==
    [type |-> type, line |-> line, matched |-> matched, clauses |-> clauses,
     error |-> error]

\* The tokens of a line:
\*   a name (no comment)
\*   # pylint: disable=C0114
\*   # pylint: enable=C0114
\*   # pylint: disable-next=C0114
\*   # pylint: disable-msg=C0114
\*   # pylint: enable-msg=C0114
\*   # pylint: disable C0114                    (no parse)
\*   # pylint: disable=no-such-message,C0114
TokensAt(line) ==
    { Token("NAME", line, FALSE, <<>>, ""),
      Token("COMMENT", line, TRUE, <<Pragma("disable", <<"C0114">>)>>, ""),
      Token("COMMENT", line, TRUE, <<Pragma("enable", <<"C0114">>)>>, ""),
      Token("COMMENT", line, TRUE, <<Pragma("disable-next", <<"C0114">>)>>, ""),
      Token("COMMENT", line, TRUE, <<Pragma("disable-msg", <<"C0114">>)>>, ""),
      Token("COMMENT", line, TRUE, <<Pragma("enable-msg", <<"C0114">>)>>, ""),
      Token("COMMENT", line, TRUE, <<>>, "InvalidPragmaError"),
      Token("COMMENT", line, TRUE,
            <<Pragma("disable", <<"no-such-message", "C0114">>)>>, "") }

\* The token streams of at most n tokens on increasing lines from `line` on.
RECURSIVE StreamsFrom(_, _)
StreamsFrom(line, n) ==
    IF n = 0 THEN {<<>>}
    ELSE {<<>>} \cup
         UNION {{<<t>> \o rest : rest \in StreamsFrom(t.line + 1, n - 1)} :
                   t \in UNION {TokensAt(l) : l \in line..effective_max_line_number}}

\* The token streams of a file: at most MaxTokens tokens, on increasing lines.
TokenStreams == StreamsFrom(1, MaxTokens)

control_pragmas == {"disable", "disable-next", "enable"}

\* The exceptions the except clause of process_tokens catches.
PragmaErrors == {"InvalidPragmaError", "UnRecognizedOptionError"}

\* add_message of one of the linter's own messages, on st.
add_linter_message(st, name, line) ==
    [st EXCEPT !.emitted = Append(@, Message(name, line)),
               !.by_msg = Put(@, name, Get(@, name, 0) + 1)]

\* The pragma that _set_msg_status has applied, giving st1, is noted.
record_applied(st1, action, msgid, line) ==
    IF st1.exc # "" THEN st1
    ELSE [st1 EXCEPT !.applied =
            Append(@, [action |-> action,
                       msgid |-> get_message_definition(msgid).value.msgid,
                       line |-> line])]

\* process_tokens, one msgid of one pragma: _set_msg_status(msgid,
\* action == "enable", "module", start[0]), on st = [pkg, mod, exc, emitted,
\* by_msg, applied].
apply_pragma(st, action, msgid, line) ==
    record_applied(set_msg_status_from(st, msgid, action = "enable", "module", line, FALSE),
                   action, msgid, line)

\* process_tokens: the loop over pragma_repr.messages, from the k-th.
RECURSIVE apply_messages(_, _, _, _, _)
apply_messages(st, action, msgids, k, line) ==
    IF k > Len(msgids) \/ st.exc # "" THEN st
    ELSE apply_messages(apply_pragma(st, action, msgids[k], line),
                        action, msgids, k + 1, line)

\* process_tokens: the loop over parse_pragma(...), from the k-th pragma.
RECURSIVE apply_clauses(_, _, _, _)
apply_clauses(st, clauses, k, line) ==
    IF k > Len(clauses) \/ st.exc # "" THEN st
    ELSE apply_clauses(
            IF clauses[k].action \in control_pragmas
            THEN apply_messages(st, clauses[k].action, clauses[k].messages, 1, line)
            ELSE st,
            clauses, k + 1, line)

\* process_tokens: the end of the try statement for one comment, st1 being
\* the state after the pragmas parse_pragma has yielded.
except_clause_of_token(st1, token) ==
    IF st1.exc # "" \/ token.error = "" THEN st1
    ELSE IF token.error \in PragmaErrors
    THEN add_linter_message(st1, "bad-inline-option", token.line)
    ELSE [st1 EXCEPT !.exc = token.error]

\* process_tokens: the body of the loop for one token.
process_token(st, token) ==
    IF token.type # "COMMENT" \/ ~token.matched THEN st
    ELSE except_clause_of_token(apply_clauses(st, token.clauses, 1, token.line), token)

\* process_tokens: the loop over the tokens, from the k-th; an exception ends it.
RECURSIVE process_tokens_from(_, _, _)
process_tokens_from(st, tokens, k) ==
    IF k > Len(tokens) \/ st.exc # "" THEN st
    ELSE process_tokens_from(process_token(st, tokens[k]), tokens, k + 1)

\* The state after process_tokens(tokens) is st.
SetScanned(st, tokens) ==
    /\ msgs_state' = st.pkg
    /\ module_msgs_state' = st.mod
    /\ emitted' = st.emitted
    /\ by_msg' = st.by_msg
    /\ applied' = st.applied
    /\ file_pc' = IF st.exc = "" THEN "scanned" ELSE "aborted"
    /\ ret' = [op |-> "process_tokens", arg |-> tokens, out |-> Outcome(st.exc)]
    /\ UNCHANGED <<registry_vars, raw_module_msgs_state, by_id_managed_msgs, calls,
                   suppression_mapping, ignored_msgs, attempts>>

\* _MessageStateHandler.process_tokens(tokens), at the start of a file's check.
process_tokens(tokens) ==
    /\ file_pc = "start"
    /\ SetScanned(process_tokens_from(
                    [pkg |-> msgs_state, mod |-> module_msgs_state, exc |-> "",
                     emitted |-> emitted, by_msg |-> by_msg, applied |-> applied],
                    tokens, 1),
                  tokens)

\* `line in self._suppression_mapping`: the keys are (msgid, line) tuples, so
\* a line number is never one of them.
line_in_suppression_mapping(mapping, line) == FALSE

\* FileState.handle_ignored_message(state_scope, msgid, line) on
\* fs = [mapping, ignored, ...].
handle_ignored_message(fs, state_scope, msgid, line) ==
    IF state_scope = "MSG_STATE_SCOPE_MODULE"
    THEN IF line_in_suppression_mapping(fs.mapping, line)
         THEN IF <<msgid, line>> \in DOMAIN fs.mapping THEN fs
              ELSE [fs EXCEPT !.exc = "KeyError"]
         ELSE [fs EXCEPT !.mapping = Put(@, <<msgid, line>>, line)]
    ELSE IF line = NoLine
    THEN [fs EXCEPT !.ignored = Put(@, <<msgid, 0>>, Get(@, <<msgid, 0>>, {}) \cup {0})]
    ELSE [fs EXCEPT !.ignored = Put(@, <<msgid, line>>, Get(@, <<msgid, line>>, {}) \cup {line})]

\* The linter's add_message(name, line, confidence): it resolves the name,
\* asks is_message_enabled, and produces a Message and counts it, or hands the
\* request to handle_ignored_message. The result is [emitted, by_msg, mapping,
\* ignored, exc].
add_message(name, line, confidence) ==
    LET cur == [emitted |-> emitted, by_msg |-> by_msg,
                mapping |-> suppression_mapping, ignored |-> ignored_msgs, exc |-> ""]
        r == get_message_definition(name)
    IN IF r.kind = "raise" THEN [cur EXCEPT !.exc = r.exc]
       ELSE LET msgid == r.value.msgid
                enabled == is_message_enabled(msgid, line, confidence)
            IN IF enabled.kind = "raise" THEN [cur EXCEPT !.exc = enabled.exc]
               ELSE IF enabled.value
               THEN [cur EXCEPT !.emitted = Append(@, Message(msgid, line)),
                                !.by_msg = Put(@, msgid, Get(@, msgid, 0) + 1)]
               ELSE handle_ignored_message(
                        cur, get_message_state_scope(msgid, line, confidence).value,
                        msgid, line)

\* A checker calls add_message while the tree is walked.
call_add_message(name, line, confidence) ==
    LET r == add_message(name, line, confidence)
    IN /\ file_pc = "scanned"
       /\ Len(attempts) < MaxEmissions
       /\ attempts' = Append(attempts, [name |-> name, line |-> line,
                                        confidence |-> confidence])
       /\ emitted' = r.emitted
       /\ by_msg' = r.by_msg
       /\ suppression_mapping' = r.mapping
       /\ ignored_msgs' = r.ignored
       /\ ret' = [op |-> "add_message",
                  arg |-> [msgid |-> name, line |-> line, confidence |-> confidence],
                  out |-> Outcome(r.exc)]
       /\ UNCHANGED <<registry_vars, state_vars, applied, file_pc>>

\* The disable pragmas that are reported at the end of the file: those whose
\* (msgid, line) is not in the suppression mapping.
useless_suppressions ==
    SelectSeq(applied, LAMBDA p : /\ p.action \in {"disable", "disable-next"}
                                  /\ <<p.msgid, p.line>> \notin DOMAIN suppression_mapping)

\* The useless-suppression messages for the pragmas ps, from the k-th.
RECURSIVE report_useless(_, _, _)
report_useless(st, ps, k) ==
    IF k > Len(ps) THEN st
    ELSE report_useless(add_linter_message(st, "useless-suppression", ps[k].line),
                        ps, k + 1)

\* The end of the file's check: the useless suppressions are reported.
end_of_file ==
    LET st == report_useless([emitted |-> emitted, by_msg |-> by_msg],
                             useless_suppressions, 1)
    IN /\ file_pc = "scanned"
       /\ emitted' = st.emitted
       /\ by_msg' = st.by_msg
       /\ file_pc' = "done"
       /\ ret' = [op |-> "end_of_file", arg |-> "", out |-> Ok("None")]
       /\ UNCHANGED <<registry_vars, state_vars, suppression_mapping, ignored_msgs,
                      applied, attempts>>

NextFile ==
    \/ register_messages_from_checker /\ UNCHANGED <<state_vars, walk_vars, more_vars>>
    \/ \E ignore_unknown \in BOOLEAN :
          /\ file_pc = "start"
          /\ disable("C0114", "package", NoLine, ignore_unknown)
          /\ UNCHANGED <<walk_vars, more_vars>>
    \/ \E tokens \in TokenStreams :
          process_tokens(tokens) /\ UNCHANGED <<walk_vars, all_stats, par_vars, py_version>>
    \/ \E line \in Lines, confidence \in Confidences :
          call_add_message("C0114", line, confidence) /\ UNCHANGED <<walk_vars, all_stats, par_vars, py_version>>
    \/ end_of_file /\ UNCHANGED <<walk_vars, all_stats, par_vars, py_version>>

SpecFile == Init /\ [][NextFile]_vars

\* ------------------------------------------------------------ merge_stats

\* The modules the workers check, and the error counts and duplication
\* percentages of a module.
ModuleNames == {"a", "b"}
ErrorCounts == {1, 3}
Percents == {25, 50}

\* The stats of a worker that has checked module m and has found n errors
\* (n messages E0001, one warning W0611) in it, pct percent of its lines
\* being duplicated.
WorkerStats(m, n, pct) ==
    [NewLinterStats EXCEPT
        !.bad_names = [@ EXCEPT !["argument"] = n, !["variable"] = 1],
        !.by_module = Put(EmptyDict, m,
                          [ZeroModuleStats EXCEPT !["error"] = n, !["warning"] = 1,
                                                  !["statement"] = n + 2]),
        !.by_msg = Put(Put(EmptyDict, "E0001", n), "W0611", 1),
        !.code_type_count = [@ EXCEPT !["code"] = n + 2, !["empty"] = 1,
                                      !["total"] = n + 3],
        !.dependencies = Put(EmptyDict, m, {"os"}),
        !.duplicated_lines = [nb_duplicated_lines |-> n,
                              percent_duplicated_lines |-> Rat(pct, 1)],
        !.node_count = [@ EXCEPT !["module"] = 1, !["function"] = n],
        !.undocumented = [@ EXCEPT !["function"] = n],
        !.error = n, !.warning = 1, !.statement = n + 2,
        !.global_note = n,
        !.nb_duplicated_lines = n,
        !.percent_duplicated_lines = Rat(pct, 1)]

StatsOfWorkers ==
    {WorkerStats(m, n, pct) : m \in ModuleNames, n \in ErrorCounts, pct \in Percents}

\* for key, value in d.items(): merged[key] += value
AddCounts(merged, d) ==
    [k \in DOMAIN merged |-> IF k \in DOMAIN d THEN merged[k] + d[k] ELSE merged[k]]

\* The loop of merge_stats over stat.by_module.
merge_by_module_overwrites(merged, by_module) ==
    [m \in DOMAIN merged \cup DOMAIN by_module |->
        IF m \in DOMAIN by_module THEN by_module[m] ELSE merged[m]]

merge_by_module(merged, by_module) ==
    [m \in DOMAIN merged \cup DOMAIN by_module |->
        IF m \notin DOMAIN by_module THEN merged[m]
        ELSE IF m \notin DOMAIN merged THEN by_module[m]
        ELSE AddCounts(merged[m], by_module[m])]

\* The loop of merge_stats over stat.by_msg.
merge_by_msg(merged, counts) ==
    [k \in DOMAIN merged \cup DOMAIN counts |->
        Get(merged, k, 0) + Get(counts, k, 0)]

\* The loop of merge_stats over stat.dependencies.
merge_dependencies(merged, dependencies) ==
    [m \in DOMAIN merged \cup DOMAIN dependencies |->
        Get(merged, m, {}) \cup Get(dependencies, m, {})]

\* The body of the loop of merge_stats: stat is added to merged.
merge_one(merged, stat) ==
    [bad_names |-> AddCounts(merged.bad_names, stat.bad_names),
     by_module |-> merge_by_module(merged.by_module, stat.by_module),
     by_msg |-> merge_by_msg(merged.by_msg, stat.by_msg),
     code_type_count |-> AddCounts(merged.code_type_count, stat.code_type_count),
     dependencies |-> merge_dependencies(merged.dependencies, stat.dependencies),
     duplicated_lines |->
        [nb_duplicated_lines |-> merged.duplicated_lines.nb_duplicated_lines
                                    + stat.duplicated_lines.nb_duplicated_lines,
         percent_duplicated_lines |->
            RatAdd(merged.duplicated_lines.percent_duplicated_lines,
                   stat.duplicated_lines.percent_duplicated_lines)],
     node_count |-> AddCounts(merged.node_count, stat.node_count),
     undocumented |-> AddCounts(merged.undocumented, stat.undocumented),
     convention |-> merged.convention + stat.convention,
     error |-> merged.error + stat.error,
     fatal |-> merged.fatal + stat.fatal,
     info |-> merged.info + stat.info,
     refactor |-> merged.refactor + stat.refactor,
     statement |-> merged.statement + stat.statement,
     warning |-> merged.warning + stat.warning,
     global_note |-> merged.global_note + stat.global_note,
     nb_duplicated_lines |-> merged.nb_duplicated_lines + stat.nb_duplicated_lines,
     percent_duplicated_lines |->
        RatAdd(merged.percent_duplicated_lines, stat.percent_duplicated_lines)]

\* The loop of merge_stats over stats, from the k-th.
RECURSIVE merge_from(_, _, _)
merge_from(merged, stats, k) ==
    IF k > Len(stats) THEN merged
    ELSE merge_from(merge_one(merged, stats[k]), stats, k + 1)

\* The end of merge_stats: the percentages are divided by len(stats).
average_percent(merged, n) ==
    IF n = 0 THEN merged
    ELSE [merged EXCEPT
            !.percent_duplicated_lines = RatDiv(@, n),
            !.duplicated_lines.percent_duplicated_lines = RatDiv(@, n)]

\* merge_stats(stats)
merge_stats(stats) == average_percent(merge_from(NewLinterStats, stats, 1), Len(stats))

\* A worker's stats are appended to the list (all_stats.append(stats)); the
\* stats of the workers are all collected before anything is merged.
append_stats(stats) ==
    /\ Len(all_stats) < MaxStats
    /\ \A k \in 1..Len(all_stats) : all_stats[k] \in StatsOfWorkers
    /\ all_stats' = Append(all_stats, stats)
    /\ ret' = [op |-> "append", arg |-> <<stats>>, out |-> Ok("None")]

\* merge_stats on a part of the collected list, the result taking the part's
\* place.
merge_part(i, j) ==
    /\ \A k \in 1..Len(all_stats) : all_stats[k] \in StatsOfWorkers
    /\ all_stats' = SubSeq(all_stats, 1, i - 1)
                        \o <<merge_stats(SubSeq(all_stats, i, j))>>
                        \o SubSeq(all_stats, j + 1, Len(all_stats))
    /\ ret' = [op |-> "merge_part", arg |-> SubSeq(all_stats, i, j),
               out |-> Ok(merge_stats(SubSeq(all_stats, i, j)))]

\* linter.stats = merge_stats(all_stats)
call_merge_stats ==
    /\ ret' = [op |-> "merge_stats", arg |-> all_stats, out |-> Ok(merge_stats(all_stats))]
    /\ UNCHANGED all_stats

NextMerge ==
    \/ \E stats \in StatsOfWorkers :
          append_stats(stats)
              /\ UNCHANGED <<registry_vars, state_vars, walk_vars, file_vars, par_vars, py_version>>
    \/ \E i, j \in 1..Len(all_stats) :
          /\ i < j
          /\ merge_part(i, j)
          /\ UNCHANGED <<registry_vars, state_vars, walk_vars, file_vars, par_vars, py_version>>
    \/ call_merge_stats /\ UNCHANGED <<registry_vars, state_vars, walk_vars, file_vars, par_vars, py_version>>

SpecMerge == Init /\ [][NextMerge]_vars

\* -------------------------------------------------------- check_parallel

\* The files of a run (FileItem: name, filepath, modpath), each with the
\* module it holds.
FileNames == {"a.py", "b.py"}

ModuleOf(file) == IF file = "a.py" THEN "a" ELSE "b"

RECURSIVE FileLists(_)
FileLists(n) ==
    IF n = 0 THEN {<<>>}
    ELSE FileLists(n - 1)
            \cup {Append(fs, f) : fs \in {l \in FileLists(n - 1) : Len(l) = n - 1},
                                  f \in FileNames}

\* The messages that the check of a file produces in the worker's linter, in
\* the order the check produces them.
MessagesOf(file) ==
    IF file = "a.py" THEN <<Message("C0114", 1), Message("C0114", 2)>>
    ELSE <<Message("C0114", 1)>>

\* The map/reduce data that the check of a file returns: checker id -> data,
\* the data of a checker being a dict of lists.
MapDataOf(file) ==
    IF file = "a.py"
    THEN Put(EmptyDict, "similarities", Put(EmptyDict, "lines", <<"a1", "a2">>))
    ELSE Put(Put(EmptyDict, "similarities", Put(EmptyDict, "lines", <<"b1">>)),
             "imports", Put(EmptyDict, "deps", <<"os">>))

\* The checkers of the parent linter, in the order in which their ids come
\* into all_mapreduce_data, and those of them that have reduce_map_data.
CheckerIds == <<"similarities", "imports">>
ReducingCheckers == {"similarities", "imports"}

\* linter.get_checker_by_id(checker_id): the checker, "None" for none.
get_checker_by_id(checker_id) ==
    IF checker_id \in Range(CheckerIds) THEN checker_id ELSE "None"

\* dill.dumps(linter): the one snapshot of the parent linter.
linter_pickle == "linter_pickle"

\* executor.map: one task per file. The callable of the tasks is a lambda:
\* a pool that serialises its tasks with the standard pickler cannot send
\* it, and every task then holds the serialisation error.
submit(files, sendable) ==
    [i \in 1..Len(files) |->
        [file |-> files[i],
         state |-> IF sendable THEN "queued" ELSE "failed",
         exc |-> IF sendable THEN "" ELSE "PicklingError",
         result |-> "None",
         messages |-> <<>>,
         checked_by |-> <<>>]]

\* The result of a task for the loop of check_parallel: the value that the
\* worker has returned, or the exception of the task raised in the parent.
future_result_swallows(task) ==
    IF task.state = "done" THEN Ok(task.result) ELSE Ok("None")

future_result(task) ==
    IF task.state = "done" THEN Ok(task.result) ELSE Raise(task.exc)

\* check_parallel(linter, jobs, files) up to the loop over the results.
check_parallel(jobs, files, available, sendable) ==
    /\ par_pc = "idle"
    /\ IF ~available
       THEN /\ par_pc' = "raised"
            /\ ret' = [op |-> "check_parallel", arg |-> <<jobs, files>>,
                       out |-> Raise("ImportError")]
            /\ UNCHANGED <<futures, workers>>
       ELSE IF jobs <= 0
       THEN /\ par_pc' = "raised"
            /\ ret' = [op |-> "check_parallel", arg |-> <<jobs, files>>,
                       out |-> Raise("ValueError")]
            /\ UNCHANGED <<futures, workers>>
       ELSE /\ par_pc' = "running"
            /\ futures' = submit(files, sendable)
            /\ workers' = [w \in 1..jobs |-> "None"]
            /\ ret' = [op |-> "check_parallel", arg |-> <<jobs, files>>,
                       out |-> Ok("running")]
    /\ all_stats' = <<>>
    /\ consumed' = 0
    /\ UNCHANGED <<linter_stats, all_mapreduce_data, reduced>>

\* A worker process of the pool starts: the initializer of the pool,
\* _worker_initialize(linter_pickle, extra_packages_paths), loads the linter.
worker_initialize(w) ==
    /\ par_pc = "running"
    /\ w \in 1..Len(workers)
    /\ workers[w] = "None"
    /\ workers' = [workers EXCEPT ![w] = linter_pickle]
    /\ ret' = [op |-> "_worker_initialize", arg |-> <<w>>, out |-> Ok("None")]
    /\ UNCHANGED <<futures, consumed, linter_stats, par_pc, all_stats,
                   all_mapreduce_data, reduced>>

\* A worker runs _worker_linter.check_single_file on the file of a queued
\* task: the check returns the pair (stats, mapreduce data) that the parent
\* unpacks, its messages being held by the worker's linter, or it fails.
worker_check(w, i, n, fails) ==
    /\ par_pc = "running"
    /\ w \in 1..Len(workers)
    /\ workers[w] # "None"
    /\ i \in 1..Len(futures)
    /\ futures[i].state = "queued"
    /\ futures' =
          [futures EXCEPT ![i] =
              IF fails
              THEN [@ EXCEPT !.state = "failed", !.exc = "AstroidError",
                             !.checked_by = Append(@, w)]
              ELSE [@ EXCEPT !.state = "done",
                             !.result = <<WorkerStats(ModuleOf(futures[i].file), n, 0),
                                          MapDataOf(futures[i].file)>>,
                             !.messages = MessagesOf(futures[i].file),
                             !.checked_by = Append(@, w)]]
    /\ ret' = [op |-> "worker_check", arg |-> <<w, i>>,
               out |-> IF fails THEN Raise("AstroidError") ELSE Ok("None")]
    /\ UNCHANGED <<all_stats, consumed, linter_stats, par_pc, workers,
                   all_mapreduce_data, reduced>>

\* for checker_id, data in mapreduce_data.items():
\*     all_mapreduce_data[checker_id].append(data)
collect_mapreduce_data(collected, mapreduce_data) ==
    [id \in DOMAIN collected \cup DOMAIN mapreduce_data |->
        IF id \in DOMAIN mapreduce_data
        THEN Append(Get(collected, id, <<>>), mapreduce_data[id])
        ELSE collected[id]]

\* One turn of the loop over executor.map: the results come in the order of
\* files; an exception of a task leaves check_parallel.
next_result ==
    /\ par_pc = "running"
    /\ consumed < Len(futures)
    /\ futures[consumed + 1].state # "queued"
    /\ LET result == future_result(futures[consumed + 1])
       IN IF result.kind = "raise"
          THEN /\ par_pc' = "raised"
               /\ ret' = [op |-> "check_parallel", arg |-> <<consumed + 1>>, out |-> result]
               /\ UNCHANGED <<all_stats, consumed, all_mapreduce_data>>
          ELSE /\ consumed' = consumed + 1
               /\ all_stats' = IF result.value = "None" THEN all_stats
                               ELSE Append(all_stats, result.value[1])
               /\ all_mapreduce_data' =
                     IF result.value = "None" THEN all_mapreduce_data
                     ELSE collect_mapreduce_data(all_mapreduce_data, result.value[2])
               /\ ret' = [op |-> "next_result", arg |-> <<consumed + 1>>, out |-> Ok("None")]
               /\ UNCHANGED par_pc
    /\ UNCHANGED <<futures, linter_stats, workers, reduced>>

\* merged_data[key].extend(value) for the items of one worker's data.
extend_merged_data(merged_data, mapreduce_data) ==
    [key \in DOMAIN merged_data \cup DOMAIN mapreduce_data |->
        Get(merged_data, key, <<>>) \o Get(mapreduce_data, key, <<>>)]

\* The loop of _merge_mapreduce_data over mapreduce_data_list, from the k-th.
RECURSIVE merged_data_from(_, _, _)
merged_data_from(merged_data, mapreduce_data_list, k) ==
    IF k > Len(mapreduce_data_list) THEN merged_data
    ELSE merged_data_from(extend_merged_data(merged_data, mapreduce_data_list[k]),
                          mapreduce_data_list, k + 1)

\* The body of the loop of _merge_mapreduce_data for one checker id, on the
\* list of the calls of reduce_map_data.
reduce_one_keeps_first(calls_made, collected, checker_id) ==
    IF get_checker_by_id(checker_id) # "None" /\ checker_id \in ReducingCheckers
    THEN Append(calls_made,
                [checker |-> checker_id,
                 data |-> merged_data_from(EmptyDict, SubSeq(collected[checker_id], 1, 1), 1)])
    ELSE calls_made

reduce_one(calls_made, collected, checker_id) ==
    IF get_checker_by_id(checker_id) # "None" /\ checker_id \in ReducingCheckers
    THEN Append(calls_made,
                [checker |-> checker_id,
                 data |-> merged_data_from(EmptyDict, collected[checker_id], 1)])
    ELSE calls_made

\* _merge_mapreduce_data(linter, all_mapreduce_data): the loop over the
\* checker ids of the collected data, from the k-th of ids.
RECURSIVE merge_mapreduce_data(_, _, _, _)
merge_mapreduce_data(calls_made, collected, ids, k) ==
    IF k > Len(ids) THEN calls_made
    ELSE merge_mapreduce_data(reduce_one(calls_made, collected, ids[k]),
                              collected, ids, k + 1)

\* The end of check_parallel: _merge_mapreduce_data(linter,
\* all_mapreduce_data), then linter.stats = merge_stats(all_stats).
merge_results ==
    /\ par_pc = "running"
    /\ consumed = Len(futures)
    /\ reduced' = merge_mapreduce_data(
                      reduced, all_mapreduce_data,
                      SelectSeq(CheckerIds, LAMBDA id : id \in DOMAIN all_mapreduce_data), 1)
    /\ linter_stats' = merge_stats(all_stats)
    /\ par_pc' = "returned"
    /\ ret' = [op |-> "check_parallel", arg |-> <<consumed>>, out |-> Ok("None")]
    /\ UNCHANGED <<futures, consumed, all_stats, workers, all_mapreduce_data>>

NextParallel ==
    \/ \E jobs \in 0..MaxJobs, files \in FileLists(MaxFiles), available, sendable \in BOOLEAN :
          check_parallel(jobs, files, available, sendable)
              /\ UNCHANGED <<registry_vars, state_vars, walk_vars, file_vars, py_version>>
    \/ \E w \in 1..Len(workers) :
          worker_initialize(w)
              /\ UNCHANGED <<registry_vars, state_vars, walk_vars, file_vars, py_version>>
    \/ \E w \in 1..Len(workers), i \in 1..Len(futures), n \in ErrorCounts, fails \in BOOLEAN :
          worker_check(w, i, n, fails)
              /\ UNCHANGED <<registry_vars, state_vars, walk_vars, file_vars, py_version>>
    \/ next_result /\ UNCHANGED <<registry_vars, state_vars, walk_vars, file_vars, py_version>>
    \/ merge_results /\ UNCHANGED <<registry_vars, state_vars, walk_vars, file_vars, py_version>>

SpecParallel == Init /\ [][NextParallel]_vars

\* ======================================================= registry claims

\* The names of a registered definition: current id and symbol, legacy ids
\* and legacy symbols.
NamesOf(m) ==
    {m.msgid, m.symbol}
        \cup {m.old_names[i][1] : i \in 1..Len(m.old_names)}
        \cup {m.old_names[i][2] : i \in 1..Len(m.old_names)}

Registered == {messages_definitions[k] : k \in DOMAIN messages_definitions}

\* `name` is a name of m and of no other registered definition.
OwnsAlone(m, name) ==
    /\ name \in NamesOf(m)
    /\ \A m2 \in Registered : m2 # m => name \notin NamesOf(m2)

Collides(msgid, symbol) ==
    \/ msgid \in DOMAIN msgid_to_symbol /\ msgid_to_symbol[msgid] # symbol
    \/ symbol \in DOMAIN symbol_to_msgid /\ symbol_to_msgid[symbol] # msgid

\* Current ids and current symbols are in one-to-one relation.
OneToOne ==
    /\ \A a, b \in DOMAIN msgid_to_symbol :
            msgid_to_symbol[a] = msgid_to_symbol[b] => a = b
    /\ \A a \in DOMAIN msgid_to_symbol :
            /\ msgid_to_symbol[a] \in DOMAIN symbol_to_msgid
            /\ symbol_to_msgid[msgid_to_symbol[a]] = a

\* C5 as stated: register_message raises InvalidMessageError when, and only
\* when, the id is already bound to a different symbol or the symbol to a
\* different id (the same pair again is not a collision), and current ids and
\* current symbols stay in one-to-one relation.
C5_DuplicateIdentity ==
    /\ []OneToOne
    /\ [][ret'.op = "register_message" =>
            ((ret'.out = Raise("InvalidMessageError"))
                <=> Collides(ret'.arg.msgid, ret'.arg.symbol))]_vars

\* `name` is no current id or symbol and no legacy id or symbol.
NotKnown(name) ==
    /\ name \notin DOMAIN msgid_to_symbol
    /\ name \notin DOMAIN symbol_to_msgid
    /\ \A i \in 1..Len(old_names) : \A j \in 1..Len(old_names[i][2]) :
            name # old_names[i][2][j][1] /\ name # old_names[i][2][j][2]

\* The identity error the registry owes such a name.
IdentityError(name) ==
    IF name \in DeletedNames THEN "DeletedMessageError"
    ELSE IF name \in MovedNames THEN "MessageBecameExtensionError"
    ELSE "UnknownMessageError"

\* C6 as stated: resolving a name that is neither current nor legacy, through
\* get_active_msgids or get_message_definitions, raises Deleted, else
\* MovedToExtension, else Unknown; it is never answered with an empty result.
C6_UnknownNameRaises ==
    (ret.op \in {"get_active_msgids", "get_message_definitions"} /\ NotKnown(ret.arg))
        => ret.out = Raise(IdentityError(ret.arg))


\* ================================================ suppression-state claims

\* The lookup the specification describes: the module-scope entry of the line
\* if there is one, else the package-scope boolean if set, else true.
ScopedLookup(msgid, line) ==
    IF line \in DOMAIN Get(module_msgs_state, msgid, EmptyDict)
    THEN module_msgs_state[msgid][line]
    ELSE Get(msgs_state, msgid, TRUE)

\* The last call was is_message_enabled(name, line) for a registered message.
AskedRegistered ==
    /\ ret.op = "is_message_enabled"
    /\ ret.arg.confidence = "None"
    /\ ret.arg.line \in Lines
    /\ get_message_definition(ret.arg.msgid).kind = "ok"

\* C1 as stated: is_message_enabled(msgid, line) for a registered message
\* returns the module-scope entry of exactly that line if there is one, else
\* the package-scope boolean if one is set (a package-scope disable with no
\* entry for the line gives false), else true; it changes no state, and the
\* same call repeated with nothing in between returns the same.
C1_EnabledLookup ==
    /\ [](AskedRegistered =>
            ret.out = Ok(ScopedLookup(get_message_definition(ret.arg.msgid).value.msgid,
                                      ret.arg.line)))
    /\ [][ret'.op = "is_message_enabled" =>
            /\ UNCHANGED <<registry_vars, state_vars>>
            /\ (ret.op = "is_message_enabled" /\ ret'.arg = ret.arg) => ret'.out = ret.out]_vars

\* The pragma table of a single "disable" on the first line of node c.
SingleDisableAt(c) == [l \in {fromlineno[c]} |-> FALSE]

\* C2 as stated: after the block propagation of a single disable pragma for X
\* on the first line of a compound construct spanning [first, last], X is
\* disabled at every line of [first, last] (no nested construct has a pragma
\* of its own here) and enabled at every line outside it.
C2_BlockPropagation ==
    (ret.op = "_set_state_on_block_lines" /\ ret.arg.node = Root) =>
        \A c \in Nodes :
            (c # Root /\ get_children[c] # <<>> /\ ret.arg.msg_state = SingleDisableAt(c)) =>
                \A l \in Lines :
                    is_message_enabled(ret.arg.msgid, l, "None")
                        = Ok(~(fromlineno[c] <= l /\ l <= tolineno[c]))

\* The step is a successful module-scope enable of message X at line L, taken
\* while X is disabled at package scope and has no module-scope entry yet.
EnablesAtLine(X, L) ==
    /\ Get(msgs_state, X, TRUE) = FALSE
    /\ X \notin DOMAIN module_msgs_state
    /\ ret'.op = "enable"
    /\ ret'.out.kind = "ok"
    /\ ret'.arg.scope = "module"
    /\ ret'.arg.line = L
    /\ get_message_definition(ret'.arg.msgid) = Ok(messages_definitions[X])

\* C3 as stated: with X disabled at package scope, a module-scope enable of X
\* at the single line L makes X enabled at L and leaves it disabled at every
\* other line (no block propagation has taken place).
C3_NarrowestScopeWins ==
    [][\A X \in DOMAIN messages_definitions : \A L \in Lines :
        EnablesAtLine(X, L) =>
            \A l \in Lines : is_message_enabled(X, l, "None")' = Ok(l = L)]_vars

\* ========================================================== walker claims

\* The kind of a node as checkers name it in visit_<kind> and leave_<kind>.
NodeKind(node) == Lower(ClassName[node])

\* The nodes below a node.
RECURSIVE Descendants(_)
Descendants(node) ==
    LET kids == Range(get_children[node])
    IN kids \cup UNION {Descendants(k) : k \in kids}

\* The log entries of callbacks with this prefix at this node.
InvokedAt(prefix, node) ==
    SelectSeq(log, LAMBDA e : e.node = node /\ e.cb.member.prefix = prefix)

\* Whether a checker defines prefix<kind of node>.
Defines(checker, prefix, node) ==
    \E k \in 1..Len(dir(checker)) : dir(checker)[k] = Member(prefix, NodeKind(node))

\* The callbacks the added checkers define for a node's kind, in the order the
\* checkers were added.
DefinedFor(prefix, node) ==
    LET cs == SelectSeq(added, LAMBDA c : Defines(c, prefix, node))
    IN [k \in 1..Len(cs) |-> Callback(cs[k], Member(prefix, NodeKind(node)))]

\* How many times a callback has been invoked at a node.
TimesInvoked(cb, node) ==
    Cardinality({i \in 1..Len(log) : log[i].node = node /\ log[i].cb = cb})

\* How many of the added checkers are `checker`.
TimesAdded(checker) ==
    Cardinality({k \in 1..Len(added) : added[k] = checker})

FailureFree == walk_status = "returned" /\ Failures = {}

\* Visit callbacks of a node come before, and its leave callbacks after, every
\* callback of its descendants; the subtrees of its children come in source order.
DepthFirstOrder ==
    \A i, j \in 1..Len(log) :
        /\ (log[j].node \in Descendants(log[i].node) /\ log[i].cb.member.prefix = "visit_")
              => i < j
        /\ (log[j].node \in Descendants(log[i].node) /\ log[i].cb.member.prefix = "leave_")
              => j < i
        /\ \A n \in Nodes : \A a, b \in 1..Len(get_children[n]) :
              (/\ a < b
               /\ log[i].node \in {get_children[n][a]} \cup Descendants(get_children[n][a])
               /\ log[j].node \in {get_children[n][b]} \cup Descendants(get_children[n][b]))
              => i < j

\* C7: walk is a depth-first traversal (visit callbacks of a node before, leave
\* callbacks after, every callback of its descendants; children in source
\* order), and in a failure-free walk every node receives each of its visit and
\* each of its leave callbacks exactly once.
C7_DepthFirstExactlyOnce ==
    /\ DepthFirstOrder
    /\ FailureFree =>
          \A n \in Nodes : \A prefix \in {"visit_", "leave_"} : \A c \in Range(added) :
              Defines(c, prefix, n) =>
                  TimesInvoked(Callback(c, Member(prefix, NodeKind(n))), n) = TimesAdded(c)

\* C8: after a failure-free walk, the callbacks invoked at every node are the
\* visit_<kind> and leave_<kind> callbacks the added checkers define for the
\* node's kind, once each, in the order the checkers were added, and no others.
C8_DispatchByKind ==
    FailureFree =>
        \A n \in Nodes : \A prefix \in {"visit_", "leave_"} :
            [k \in 1..Len(InvokedAt(prefix, n)) |-> InvokedAt(prefix, n)[k].cb]
                = DefinedFor(prefix, n)

\* C9: in batch mode, when the walk is over, every callback that the walker
\* holds for a node other than the one where a callback failed, and that belongs
\* to another checker than the failed one, has been invoked at that node.
C9_BatchFailureIsolated ==
    (walk_status = "returned" /\ exception_msg) =>
        \A f \in Failures : \A n \in Nodes \ {log[f].node} :
            \A events \in {visit_events, leave_events} :
                \A k \in 1..Len(callbacks_of(events, n)) :
                    LET cb == callbacks_of(events, n)[k]
                    IN cb.checker # log[f].cb.checker => TimesInvoked(cb, n) >= 1

\* C10: in development mode, once a callback has raised, walk has raised to its
\* caller: it neither goes on nor returns normally.
C10_DevModeReRaises ==
    (~exception_msg /\ Failures # {}) => walk_status = "raised"

\* ======================================================== emission claims

\* The step is a checker's emission request for a registered message.
Requests(msgid, line) ==
    /\ Len(attempts') = Len(attempts) + 1
    /\ attempts'[Len(attempts')].line = line
    /\ get_message_definition(attempts'[Len(attempts')].name) = Ok(messages_definitions[msgid])

\* C11: a request for a message that is disabled for the line (by its module
\* entry for the line, else by its package state) raises nothing and leaves
\* the Messages and the counters as they are; a request for a message that is
\* enabled for the line adds exactly one Message at that line.
C11_DisabledEmissionIsNoOp ==
    [][\A msgid \in DOMAIN messages_definitions : \A line \in Lines :
        Requests(msgid, line) =>
            /\ ret'.out.kind = "ok"
            /\ IF ScopedLookup(msgid, line)
               THEN emitted' = Append(emitted, Message(msgid, line))
               ELSE emitted' = emitted /\ by_msg' = by_msg]_vars

\* =========================================================== merge claims

\* The sum of a sequence of numbers.
RECURSIVE SumSeq(_)
SumSeq(ns) == IF ns = <<>> THEN 0 ELSE ns[1] + SumSeq(Tail(ns))

\* The sum over the inputs stats of the counter that Counter(stat) gives.
SumOver(Counter(_), stats) == SumSeq([i \in 1..Len(stats) |-> Counter(stats[i])])

\* The names that are keys of by_msg or of by_module in some input.
KeysOf(Dict(_), stats) == UNION {DOMAIN Dict(stats[i]) : i \in 1..Len(stats)}

\* merged holds, for every counter, the sum of the counter over stats.
IsPointwiseSum(merged, stats) ==
    /\ \A t \in ModuleStatsKeys :
          merged[t] = SumOver(LAMBDA st : st[t], stats)
    /\ DOMAIN merged.by_msg = KeysOf(LAMBDA st : st.by_msg, stats)
    /\ \A id \in DOMAIN merged.by_msg :
          merged.by_msg[id] = SumOver(LAMBDA st : Get(st.by_msg, id, 0), stats)
    /\ DOMAIN merged.by_module = KeysOf(LAMBDA st : st.by_module, stats)
    /\ \A m \in DOMAIN merged.by_module : \A t \in ModuleStatsKeys :
          merged.by_module[m][t] =
              SumOver(LAMBDA st : Get(st.by_module, m, ZeroModuleStats)[t], stats)
    /\ \A k \in NodeCountKeys :
          /\ merged.node_count[k] = SumOver(LAMBDA st : st.node_count[k], stats)
          /\ merged.undocumented[k] = SumOver(LAMBDA st : st.undocumented[k], stats)
    /\ \A k \in BadNamesKeys :
          merged.bad_names[k] = SumOver(LAMBDA st : st.bad_names[k], stats)
    /\ \A k \in CodeTypeCountKeys :
          merged.code_type_count[k] = SumOver(LAMBDA st : st.code_type_count[k], stats)

\* C12: the LinterStats that merge_stats returns holds, for every counter
\* (category totals, statements, per-message and per-module counts, node,
\* undocumented, bad-name and code-type counts), the sum over its inputs.
C12_MergeIsPointwiseSum ==
    ret.op \in {"merge_stats", "merge_part"} => IsPointwiseSum(ret.out.value, ret.arg)

\* merge_stats has merged a worker with 3 errors and a worker with 1 error
\* in the same module into 4 errors.
C12_Witness ==
    /\ ret.op = "merge_stats"
    /\ Len(ret.arg) = 2
    /\ ret.arg[1].error = 3 /\ ret.arg[2].error = 1
    /\ DOMAIN ret.arg[1].by_module = DOMAIN ret.arg[2].by_module
    /\ ret.out.value.error = 4
    /\ \A m \in DOMAIN ret.out.value.by_module : ret.out.value.by_module[m]["error"] = 4

\* C13: for the three stats A, B, C of the list, merging them in any order,
\* merging merge([A, B]) with C and merging A with merge([B, C]) give stats
\* that are equal in every field.
C13_MergeAssociative ==
    Len(all_stats) = 3 =>
        LET A == all_stats[1]
            B == all_stats[2]
            C == all_stats[3]
            all == merge_stats(<<A, B, C>>)
        IN /\ \A p \in {<<A, C, B>>, <<B, A, C>>, <<B, C, A>>, <<C, A, B>>, <<C, B, A>>} :
                 merge_stats(p) = all
           /\ merge_stats(<<merge_stats(<<A, B>>), C>>) = all
           /\ merge_stats(<<A, merge_stats(<<B, C>>)>>) = all

\* ======================================================== parallel claims

\* The messages of seq that occurrences of the messages of part are.
RECURSIVE CountIn(_, _)
CountIn(seq, m) ==
    IF seq = <<>> THEN 0
    ELSE (IF seq[1] = m THEN 1 ELSE 0) + CountIn(Tail(seq), m)

\* part is a block of whole: the messages of one file, in their order.
IsBlockOf(part, whole) ==
    \E k \in 0..(Len(whole) - Len(part)) : SubSeq(whole, k + 1, k + Len(part)) = part

\* The number of messages that the workers have produced.
RECURSIVE Produced(_)
Produced(tasks) ==
    IF tasks = <<>> THEN 0 ELSE Len(tasks[1].messages) + Produced(Tail(tasks))

\* C14: when check_parallel has returned, the parent linter's messages are
\* the messages that the workers have produced, each delivered once, those of
\* one file in the order its check has produced them.
C14_MessagesDelivered ==
    par_pc = "returned" =>
        /\ Len(emitted) = Produced(futures)
        /\ \A i \in 1..Len(futures) : IsBlockOf(futures[i].messages, emitted)

\* Some task has failed: in a worker's check of its file, or on its way to
\* the worker.
SomeTaskFailed == \E i \in 1..Len(futures) : futures[i].state = "failed"

\* C15: check_parallel never returns normally when the check of one of its
\* files has failed, and the error that ends it is raised to its caller; a
\* run without files returns normally.
C15_WorkerFailureIsFatal ==
    /\ (SomeTaskFailed => par_pc # "returned")
    /\ (par_pc = "returned" => consumed = Len(futures) /\ Len(all_stats) = Len(futures))
    /\ (par_pc = "raised" => ret.op = "check_parallel" /\ ret.out.kind = "raise")
    /\ (par_pc = "running" /\ futures = <<>> => ENABLED merge_results)

\* A worker's check of the second of two files has failed after the first
\* file's result has been taken, and check_parallel has raised the failure.
C15_Witness ==
    /\ par_pc = "raised"
    /\ Len(futures) = 2
    /\ consumed = 1
    /\ futures[1].state = "done"
    /\ futures[2].state = "failed" /\ futures[2].exc = "AstroidError"
    /\ ret.out = Raise("AstroidError")

\* ==================================================== unknown-name claims

Scans(tokens) ==
    /\ file_pc = "start"
    /\ file_pc' # "start"
    /\ ret'.op = "process_tokens"
    /\ ret'.arg = tokens

\* The comment `# pylint: <action>=C0114` on line `line`.
PragmaComment(action, line) ==
    Token("COMMENT", line, TRUE, <<Pragma(action, <<"C0114">>)>>, "")

\* The comment `# pylint: disable=no-such-message,C0114` on line `line`.
UnknownNameComment(line) ==
    Token("COMMENT", line, TRUE, <<Pragma("disable", <<"no-such-message", "C0114">>)>>, "")

\* The k-th token is a comment whose pragma cannot be parsed.
Unparseable(tokens, k) == tokens[k].type = "COMMENT" /\ tokens[k].error # ""

\* The k-th token is a comment with a pragma that disables or enables C0114.
Controls(tokens, k) ==
    /\ tokens[k].type = "COMMENT"
    /\ tokens[k].error = ""
    /\ tokens[k].clauses # <<>>

\* The scan has applied the pragma of the comment on line `line`.
AppliedAt(line) == \E k \in 1..Len(applied) : applied[k].line = line

\* C17: a file whose only pragma is disable-next=X on line L: after the scan
\* X is disabled at line L + 1, and its state at L and at every other line is
\* what it was.
C17_DisableNextOnlyNextLine ==
    [][\A L \in Lines :
          "C0114" \in DOMAIN messages_definitions
              /\ Scans(<<PragmaComment("disable-next", L)>>) =>
                  /\ ret'.out.kind = "ok"
                  /\ \A l \in Lines :
                        ScopedLookup("C0114", l)' =
                            IF l = L + 1 THEN FALSE ELSE ScopedLookup("C0114", l)]_vars

\* C18: for every comment of the token stream whose pragma cannot be parsed,
\* the scan adds one bad-inline-option message at the comment's line, it does
\* not abort, and it applies the pragmas of the comments that follow.
C18_BadPragmaOneDiagnostic ==
    [][\A tokens \in TokenStreams : \A k \in 1..Len(tokens) :
          "C0114" \in DOMAIN messages_definitions
              /\ Scans(tokens) /\ Unparseable(tokens, k) =>
                  /\ ret'.out.kind = "ok"
                  /\ CountIn(emitted', Message("bad-inline-option", tokens[k].line))
                        = CountIn(emitted, Message("bad-inline-option", tokens[k].line)) + 1
                  /\ \A j \in (k + 1)..Len(tokens) :
                        Controls(tokens, j) => AppliedAt(tokens[j].line)']_vars

\* C19: for a comment that disables an unknown name and X, the scan does not
\* abort, it adds one message at the comment's line for the unknown name, it
\* disables X at the line, and it applies the pragmas of later comments.
C19_UnknownNameInPragma ==
    [][\A tokens \in TokenStreams : \A k \in 1..Len(tokens) :
          "C0114" \in DOMAIN messages_definitions
              /\ Scans(tokens) /\ tokens[k] = UnknownNameComment(tokens[k].line) =>
                  /\ ret'.out.kind = "ok"
                  /\ \E m \in LinterMessages \cup {"unknown-option-value"} :
                        CountIn(emitted', Message(m, tokens[k].line))
                            = CountIn(emitted, Message(m, tokens[k].line)) + 1
                  /\ ~ScopedLookup("C0114", tokens[k].line)'
                  /\ \A j \in (k + 1)..Len(tokens) :
                        Controls(tokens, j) => AppliedAt(tokens[j].line)']_vars

\* The request a was for the message of the pragma p, it produced no Message,
\* and the entry that disabled the message at its line was written by p: p is
\* the last pragma of the file at or above the line.
SuppressedBy(p, a) ==
    /\ get_message_definition(a.name) = Ok(messages_definitions[p.msgid])
    /\ Message(p.msgid, a.line) \notin {emitted[i] : i \in 1..Len(emitted)}
    /\ <<p.msgid, a.line>> \in DOMAIN suppression_mapping
    /\ p.line <= a.line
    /\ \A q \in {applied[i] : i \in 1..Len(applied)} :
          q.msgid = p.msgid /\ q.line <= a.line => q.line <= p.line

\* A request for the message of the pragma p at the pragma's line.
AttemptedAt(p) ==
    \E i \in 1..Len(attempts) :
        /\ attempts[i].line = p.line
        /\ get_message_definition(attempts[i].name).kind = "ok"
        /\ get_message_definition(attempts[i].name).value.msgid = p.msgid

\* C20: at the end of the file, a disable pragma at whose line its message
\* was never requested has one useless-suppression message, and a disable
\* pragma that has suppressed a request has none.
C20_UselessSuppression ==
    file_pc = "done" =>
        \A k \in 1..Len(applied) :
            applied[k].action = "disable" =>
                /\ ~AttemptedAt(applied[k]) /\ ~(\E i \in 1..Len(attempts) :
                                                    SuppressedBy(applied[k], attempts[i])) =>
                      CountIn(emitted, Message("useless-suppression", applied[k].line)) = 1
                /\ (\E i \in 1..Len(attempts) : SuppressedBy(applied[k], attempts[i])) =>
                      CountIn(emitted, Message("useless-suppression", applied[k].line)) = 0

\* The state before the step, as process_tokens takes it.
BeforeScan ==
    [pkg |-> msgs_state, mod |-> module_msgs_state, exc |-> "",
     emitted |-> emitted, by_msg |-> by_msg, applied |-> applied]

\* The deprecated synonym of an action.
Deprecated(action) == IF action = "disable" THEN "disable-msg" ELSE "enable-msg"

\* C21: the scan of a file whose only pragma is disable-msg=X (enable-msg=X)
\* leaves the package-scope and the module-scope state as the scan of the
\* same file with disable=X (enable=X) would.
C21_DeprecatedSynonyms ==
    [][\A L \in Lines : \A action \in {"disable", "enable"} :
          "C0114" \in DOMAIN messages_definitions
              /\ Scans(<<PragmaComment(Deprecated(action), L)>>) =>
                  LET st == process_tokens_from(BeforeScan, <<PragmaComment(action, L)>>, 1)
                  IN /\ module_msgs_state' = st.mod
                     /\ msgs_state' = st.pkg
                     /\ ret'.out = Outcome(st.exc)]_vars

\* ========================================================= version claims

\* The answer the claim gives for a definition and a version: "no" when the
\* version is below the minversion or above the maxversion, "yes" when every
\* bound that is set has minversion <= version < maxversion, else "any".
VersionAnswer(message, version) ==
    LET lo == MinVersion(message)
        hi == MaxVersion(message)
    IN IF (lo # NoVersion /\ TupleLess(version, lo)) \/ (hi # NoVersion /\ TupleLess(hi, version))
       THEN "no"
       ELSE IF (lo = NoVersion \/ ~TupleLess(version, lo))
                /\ (hi = NoVersion \/ TupleLess(version, hi))
       THEN "yes"
       ELSE "any"

Agrees(answer, expected) ==
    (expected = "no" => ~answer) /\ (expected = "yes" => answer)

\* C22: may_be_emitted answers False below the minversion and above the
\* maxversion, True when every bound that is set admits the version, and it
\* returns; find_emittable_messages puts every registered definition in
\* exactly one of its two lists, the first when may_be_emitted says True.
C22_VersionBounds ==
    /\ ret.op = "may_be_emitted" =>
          /\ ret.out.kind = "ok"
          /\ Agrees(ret.out.value, VersionAnswer(ret.arg.message, ret.arg.version))
    /\ ret.op = "find_emittable_messages" =>
          LET emittable == ret.out.value[1]
              non_emittable == ret.out.value[2]
          IN \A id \in DOMAIN messages_definitions :
                LET m == messages_definitions[id]
                IN /\ CountIn(emittable, m) + CountIn(non_emittable, m) = 1
                   /\ CountIn(emittable, m) = 1 <=> may_be_emitted(m, ret.arg)
                   /\ Agrees(CountIn(emittable, m) = 1, VersionAnswer(m, ret.arg))

\* find_emittable_messages has put one definition in each list: one whose
\* bounds admit the store's version and one whose minversion is above it.
C22_Witness ==
    /\ ret.op = "find_emittable_messages"
    /\ Len(ret.out.value[1]) = 1
    /\ Len(ret.out.value[2]) = 1
    /\ VersionAnswer(ret.out.value[1][1], py_version) = "yes"
    /\ VersionAnswer(ret.out.value[2][1], py_version) = "no"
    /\ MaxVersion(ret.out.value[1][1]) # NoVersion

\* ======================================================= map/reduce claims

\* The data for the checker c under key that the workers have returned, in
\* the order of the files, from the k-th task.
RECURSIVE ReturnedData(_, _, _)
ReturnedData(c, key, k) ==
    IF k > Len(futures) THEN <<>>
    ELSE (IF futures[k].state = "done" /\ c \in DOMAIN futures[k].result[2]
          THEN Get(futures[k].result[2][c], key, <<>>)
          ELSE <<>>) \o ReturnedData(c, key, k + 1)

\* The keys of the data that the workers have returned for the checker c.
ReturnedKeys(c) ==
    UNION {DOMAIN futures[k].result[2][c] :
              k \in {i \in 1..Len(futures) :
                        futures[i].state = "done" /\ c \in DOMAIN futures[i].result[2]}}

\* The calls of reduce_map_data of the checker c.
ReduceCalls(c) == SelectSeq(reduced, LAMBDA call : call.checker = c)

\* C23: when check_parallel has returned, each checker for which the workers
\* have returned data has had one call of reduce_map_data, whose data are all
\* the data returned for it and nothing else; a checker without returned data
\* has had none, and no call is made before the results are all taken.
C23_ReduceOncePerChecker ==
    /\ par_pc # "returned" => reduced = <<>>
    /\ par_pc = "returned" =>
          \A c \in Range(CheckerIds) :
              IF ReturnedKeys(c) = {} THEN ReduceCalls(c) = <<>>
              ELSE /\ Len(ReduceCalls(c)) = 1
                   /\ DOMAIN ReduceCalls(c)[1].data = ReturnedKeys(c)
                   /\ \A key \in ReturnedKeys(c) :
                         ReduceCalls(c)[1].data[key] = ReturnedData(c, key, 1)

\* check_parallel has returned from the files a.py and b.py: the reduce of
\* similarities has had the lines of both, the reduce of imports has had the
\* one dependency of b.py.
C23_Witness ==
    /\ par_pc = "returned"
    /\ Len(futures) = 2
    /\ futures[1].file = "a.py" /\ futures[2].file = "b.py"
    /\ Len(reduced) = 2
    /\ ReduceCalls("similarities")[1].data["lines"] = <<"a1", "a2", "b1">>
    /\ ReduceCalls("imports")[1].data["deps"] = <<"os">>

\* C30: no file is checked twice, every check is made by a worker that has
\* loaded the one snapshot, check_parallel returns only when every file has
\* been checked, it gives up only when a check has failed, and the merges are
\* made only when every result has been taken.
C30_EveryFileCheckedOnce ==
    /\ \A i \in 1..Len(futures) :
          /\ Len(futures[i].checked_by) <= 1
          /\ \A k \in 1..Len(futures[i].checked_by) :
                workers[futures[i].checked_by[k]] = linter_pickle
    /\ par_pc = "returned" =>
          \A i \in 1..Len(futures) : Len(futures[i].checked_by) = 1
    /\ par_pc = "raised" /\ futures # <<>> =>
          \E i \in 1..Len(futures) : Len(futures[i].checked_by) = 1 /\ futures[i].state = "failed"
    /\ reduced # <<>> \/ linter_stats # NewLinterStats => consumed = Len(futures)

\* ================================================= managed-message claims

\* The step is a call of disable or enable that has returned.
SetsStatus(op, name, line) ==
    /\ calls' = calls + 1
    /\ ret'.op = op
    /\ ret'.arg.msgid = name
    /\ ret'.arg.line = line
    /\ ret'.out.kind = "ok"

\* C24: a request of disable or enable that names a registered message by
\* its id appends one ManagedMessage (id, symbol, line, disabled flag) to the
\* list, and a request that names it by its symbol leaves the list as it is.
C24_ManagedById ==
    [][\A op \in {"disable", "enable"} : \A name \in HandlerNames :
       \A line \in {NoLine} \cup Lines :
          SetsStatus(op, name, line) /\ get_message_definition(name).kind = "ok" =>
              LET msg == get_message_definition(name).value
              IN IF name = msg.msgid
                 THEN by_id_managed_msgs' =
                          Append(by_id_managed_msgs,
                                 [msgid |-> msg.msgid, symbol |-> msg.symbol,
                                  line |-> line, is_disabled |-> (op = "disable")])
                 ELSE by_id_managed_msgs' = by_id_managed_msgs]_vars

\* ========================================================== nesting claims

\* The pragma table of a pragma that sets state S on the first line of the
\* construct outer and of a pragma that sets the opposite state on the first
\* line of the construct inner.
NestedPragmas(outer, inner, S) ==
    [l \in {fromlineno[outer], fromlineno[inner]} |->
        IF l = fromlineno[outer] THEN S ELSE ~S]

\* C25: a construct with a pragma that sets S for X holds a nested construct
\* with a pragma that sets the opposite state: after the block propagation
\* the lines of the nested construct carry the opposite state and the other
\* lines of the outer construct carry S.
C25_DeepestWriteWins ==
    (ret.op = "_set_state_on_block_lines" /\ ret.arg.node = Root) =>
        \A outer, inner \in Nodes \ {Root} : \A S \in BOOLEAN :
            (/\ inner \in Range(get_children[outer])
             /\ get_children[inner] # <<>>
             /\ ret.arg.msg_state = NestedPragmas(outer, inner, S)) =>
                \A l \in fromlineno[outer]..tolineno[outer] :
                    ScopedLookup(ret.arg.msgid, l)
                        = IF fromlineno[inner] <= l /\ l <= tolineno[inner] THEN ~S ELSE S

\* ==================================================== batch failure claims

\* The log entries of the callbacks that raised, in the order they raised.
RECURSIVE FailuresFrom(_)
FailuresFrom(k) ==
    IF k > Len(log) THEN <<>>
    ELSE IF log[k].raised THEN <<log[k]>> \o FailuresFrom(k + 1)
    ELSE FailuresFrom(k + 1)

\* C26: in batch mode every callback failure has produced exactly one
\* diagnostic, of the fatal category and on the line of the node whose callback
\* failed (none is added for an enclosing node), and the walk goes on or has
\* returned normally.
C26_OneFatalPerFailure ==
    exception_msg =>
        /\ Len(added_messages) = Len(FailuresFrom(1))
        /\ \A k \in 1..Len(added_messages) :
              /\ k <= Len(FailuresFrom(1)) =>
                    added_messages[k].line = lineno[FailuresFrom(1)[k].node]
              /\ Category(added_messages[k].msgid) = "F"
        /\ walk_status \in {"idle", "walking", "returned"}

\* ====================================================== percentage claims

\* The percentage of duplicated lines that the counts of a LinterStats give:
\* 100 * duplicated lines / total lines.
DerivedPercent(stat) ==
    IF stat.code_type_count["total"] = 0 THEN Rat(0, 1)
    ELSE Rat(100 * stat.nb_duplicated_lines, stat.code_type_count["total"])

\* Both percentage fields of the stats are the percentage their counts give.
PercentFromCounts(stat) ==
    /\ stat.percent_duplicated_lines = DerivedPercent(stat)
    /\ stat.duplicated_lines.percent_duplicated_lines = DerivedPercent(stat)

\* C27: when merge_stats has merged stats whose percentages of duplicated
\* lines are those their own counts give, the percentages of the merged stats
\* are those the merged counts give (not the sum and not the average of the
\* inputs' percentages).
C27_PercentRederived ==
    (/\ ret.op = "merge_stats"
     /\ ret.arg # <<>>
     /\ \A k \in 1..Len(ret.arg) : PercentFromCounts(ret.arg[k])) =>
        PercentFromCounts(ret.out.value)

\* ========================================================== caching claims

\* What the current registrations alone give for a name: the resolution of
\* get_active_msgids with nothing cached.
FreshMsgids(name) ==
    LET result == LookupMsgids(msgid_to_symbol, symbol_to_msgid, old_names, name)
    IN IF result = <<>>
       THEN Raise(IF is_deleted(name) THEN "DeletedMessageError"
                  ELSE IF is_moved(name) THEN "MessageBecameExtensionError"
                  ELSE "UnknownMessageError")
       ELSE Ok(result)

\* The resolution of get_message_definitions with nothing cached.
FreshDefinitions(name) ==
    LET r == FreshMsgids(name)
    IN IF r.kind = "raise"
       THEN IF r.exc \in UnknownMessageErrors THEN Ok(<<>>) ELSE r
       ELSE IF \E i \in 1..Len(r.value) : r.value[i] \notin DOMAIN messages_definitions
            THEN Raise("KeyError")
            ELSE Ok(DefinitionsOf(r.value))

\* C28: whatever registrations and resolutions came before, the answer of
\* get_active_msgids and of get_message_definitions for a name is the one the
\* current registrations give with nothing cached.
C28_CacheAgreesWithCatalog ==
    /\ ret.op = "get_active_msgids" => ret.out = FreshMsgids(ret.arg)
    /\ ret.op = "get_message_definitions" => ret.out = FreshDefinitions(ret.arg)

\* ============================================================ scope claims

\* The message has a module-scope entry for the line.
HasModuleEntry(msgid, line) == line \in DOMAIN Get(module_msgs_state, msgid, EmptyDict)

\* C29: at a request for a registered message, the scope that
\* _get_message_state_scope reports is the module scope when the message has a
\* module entry for the line and the config scope when it has none and its
\* package state is set; a request that a module entry suppresses puts
\* (msgid, line) in the suppression mapping, and a request for a message
\* disabled by its package state alone leaves the mapping as it is.
C29_ScopeOfDecision ==
    [][\A msgid \in DOMAIN messages_definitions : \A line \in Lines :
        Requests(msgid, line) =>
            LET scope == get_message_state_scope(msgid, line,
                                                 attempts'[Len(attempts')].confidence)
            IN /\ HasModuleEntry(msgid, line) => scope = Ok("MSG_STATE_SCOPE_MODULE")
               /\ (~HasModuleEntry(msgid, line) /\ msgid \in DOMAIN msgs_state) =>
                      scope = Ok("MSG_STATE_SCOPE_CONFIG")
               /\ (HasModuleEntry(msgid, line) /\ ~module_msgs_state[msgid][line]) =>
                      <<msgid, line>> \in DOMAIN suppression_mapping'
               /\ (~HasModuleEntry(msgid, line) /\ ~Get(msgs_state, msgid, TRUE)) =>
                      suppression_mapping' = suppression_mapping]_vars

====
